---------------------------- MODULE Spec2Model ----------------------------
(***************************************************************************)
(* HP MRI web application: the PlotComponent rendering pipeline            *)
(* (calculateDomain, prepareGridData, createLineData, configureLayout,     *)
(* updatePlot) and the HomePage controller (pan offset, visibility,        *)
(* dataset and image requests, voxel selection).                           *)
(*                                                                         *)
(* JavaScript numbers are binary floating-point values.  A number is       *)
(* modelled as a record [c, m, e]: c = "fin" stands for m * 2^e with m odd *)
(* (or m = 0, e = 0), c = "inf" for +/-Infinity (sign in m), c = "nan" for *)
(* NaN and c = "null" for the JavaScript null used as a gap marker.  Every *)
(* arithmetic operation rounds its exact result to MantBits significant    *)
(* bits, ties to even, as IEEE 754 does with 53 bits.  The exponent range  *)
(* is not bounded (no value of the model comes near the overflow or        *)
(* underflow threshold of a double).  Zero carries no sign: every divisor  *)
(* in the sources is a prop or a state field, never a computed value.      *)
(***************************************************************************)
EXTENDS Integers, Sequences, FiniteSets, TLC

(***************************************************************************)
(* Bounds of the model.                                                    *)
(***************************************************************************)
MantBits == 11

MaxLen == 2

MaxShift == 1

MaxPan == 1

MaxVoxels == 2

MaxInFlight == 2

(***************************************************************************)
(* Number arithmetic.                                                      *)
(***************************************************************************)
RECURSIVE Pow2(_)
Pow2(k) == IF k <= 0 THEN 1 ELSE 2 * Pow2(k - 1)

Abs(i) == IF i < 0 THEN -i ELSE i

Sgn(i) == IF i < 0 THEN -1 ELSE IF i = 0 THEN 0 ELSE 1

MinInt(i, j) == IF i <= j THEN i ELSE j

NaN == [c |-> "nan", m |-> 0, e |-> 0]

Inf(s) == [c |-> "inf", m |-> s, e |-> 0]

Null == [c |-> "null", m |-> 0, e |-> 0]

Zero == [c |-> "fin", m |-> 0, e |-> 0]

\* m * 2^e in canonical form (m odd, or zero)
RECURSIVE Norm(_, _)
Norm(m, e) ==
    IF m = 0 THEN Zero
    ELSE IF m % 2 = 0 THEN Norm(m \div 2, e + 1)
    ELSE [c |-> "fin", m |-> m, e |-> e]

\* 2^(MantBits-1): a significand q is normalised when HalfRange <= q < 2 * HalfRange
HalfRange == Pow2(MantBits - 1)

\* <<n', d', k>> with n/d = (n'/d') * 2^(-k) and HalfRange <= n'/d' < 2 * HalfRange
RECURSIVE Scale(_, _, _)
Scale(n, d, k) ==
    IF n < HalfRange * d THEN Scale(2 * n, d, k + 1)
    ELSE IF n >= 2 * HalfRange * d THEN Scale(n, 2 * d, k - 1)
    ELSE <<n, d, k>>

\* s * (t[1]/t[2]) * 2^(e - t[3]) with the quotient rounded to an integer, ties to even
RoundQuotient(s, t, e) ==
    LET q == t[1] \div t[2]
        r == t[1] % t[2]
    IN  IF (2 * r > t[2]) \/ (2 * r = t[2] /\ q % 2 = 1)
        THEN Norm(s * (q + 1), e - t[3])
        ELSE Norm(s * q, e - t[3])

\* s * (n/d) * 2^e rounded to MantBits significant bits (n >= 0, d > 0)
Round(s, n, d, e) ==
    IF n = 0 \/ s = 0 THEN Zero
    ELSE IF d = 1 /\ n < 2 * HalfRange THEN Norm(s * n, e)
    ELSE RoundQuotient(s, Scale(n, d, 0), e)

\* the number nearest to the integer i, and to the decimal literal n/d
Num(i) == Round(Sgn(i), Abs(i), 1, 0)

Lit(n, d) == Round(1, n, d, 0)

IsFin(a) == a.c = "fin"

IsNaN(a) == a.c = "nan"

\* exact sum of two finite numbers as <<integer, exponent>>
ExactSum(a, b) ==
    IF a.m = 0 THEN <<b.m, b.e>>
    ELSE IF b.m = 0 THEN <<a.m, a.e>>
    ELSE LET e == MinInt(a.e, b.e)
         IN  <<a.m * Pow2(a.e - e) + b.m * Pow2(b.e - e), e>>

NumNeg(a) == IF a.c \in {"fin", "inf"} THEN [a EXCEPT !.m = -a.m] ELSE a

NumAdd(a, b) ==
    IF IsNaN(a) \/ IsNaN(b) THEN NaN
    ELSE IF a.c = "inf" /\ b.c = "inf" THEN (IF a.m = b.m THEN a ELSE NaN)
    ELSE IF a.c = "inf" THEN a
    ELSE IF b.c = "inf" THEN b
    ELSE LET s == ExactSum(a, b)
         IN  Round(Sgn(s[1]), Abs(s[1]), 1, s[2])

NumSub(a, b) == NumAdd(a, NumNeg(b))

NumMul(a, b) ==
    IF IsNaN(a) \/ IsNaN(b) THEN NaN
    ELSE IF a.c = "inf" \/ b.c = "inf"
         THEN (IF a.m = 0 \/ b.m = 0 THEN NaN ELSE Inf(Sgn(a.m) * Sgn(b.m)))
    ELSE Round(Sgn(a.m) * Sgn(b.m), Abs(a.m) * Abs(b.m), 1, a.e + b.e)

NumDiv(a, b) ==
    IF IsNaN(a) \/ IsNaN(b) THEN NaN
    ELSE IF a.c = "inf" THEN (IF b.c = "inf" THEN NaN
                              ELSE Inf(a.m * (IF b.m < 0 THEN -1 ELSE 1)))
    ELSE IF b.c = "inf" THEN Zero
    ELSE IF b.m = 0 THEN (IF a.m = 0 THEN NaN ELSE Inf(Sgn(a.m)))
    ELSE Round(Sgn(a.m) * Sgn(b.m), Abs(a.m), Abs(b.m), a.e - b.e)

\* a < b as JavaScript evaluates it (false when either side is NaN)
NumLt(a, b) ==
    IF IsNaN(a) \/ IsNaN(b) THEN FALSE
    ELSE IF a.c = "inf" THEN a.m < 0 /\ ~(b.c = "inf" /\ b.m < 0)
    ELSE IF b.c = "inf" THEN b.m > 0
    ELSE ExactSum(a, NumNeg(b))[1] < 0

NumGt(a, b) == NumLt(b, a)

NumLe(a, b) == ~IsNaN(a) /\ ~IsNaN(b) /\ ~NumLt(b, a)

\* Math.floor of a finite number, as an integer
NumFloor(a) ==
    IF a.e >= 0 THEN a.m * Pow2(a.e) ELSE a.m \div Pow2(-a.e)


(***************************************************************************)
(* PlotComponent (versions 1.1.0, 1.2.1 and 1.2.2).                        *)
(***************************************************************************)
PlotVersions == {"1.1.0", "1.2.1", "1.2.2"}

\* bounds of the trace filter of each version
LowerEps(ver) == IF ver = "1.1.0" THEN Lit(1, 10) ELSE Lit(1, 100)

UpperEps(ver) == IF ver = "1.1.0" THEN Lit(99, 10) ELSE Lit(999, 100)

\* variant: the width added to low is the measurement, not measurement / scale
calculateDomainWidthUnscaled(longitudinalScale, longitudinalMeasurement, plotShiftX, columns, perpendicularScale, perpendicularMeasurement, plotShiftY, rows) ==
    [x |-> << NumDiv(NumAdd(NumDiv(NumSub(longitudinalScale, longitudinalMeasurement), Num(2)),
                            NumDiv(NumMul(plotShiftX, longitudinalMeasurement), columns)),
                     longitudinalScale),
              NumAdd(NumDiv(NumAdd(NumDiv(NumSub(longitudinalScale, longitudinalMeasurement), Num(2)),
                                   NumDiv(NumMul(plotShiftX, longitudinalMeasurement), columns)),
                            longitudinalScale),
                     longitudinalMeasurement) >>,
     y |-> << NumDiv(NumAdd(NumDiv(NumSub(perpendicularScale, perpendicularMeasurement), Num(2)),
                            NumDiv(NumMul(plotShiftY, perpendicularMeasurement), rows)),
                     perpendicularScale),
              NumAdd(NumDiv(NumAdd(NumDiv(NumSub(perpendicularScale, perpendicularMeasurement), Num(2)),
                                   NumDiv(NumMul(plotShiftY, perpendicularMeasurement), rows)),
                            perpendicularScale),
                     perpendicularMeasurement) >>]

\* variant: the y interval divides the shift by columns, as the x interval does
calculateDomainColumnsForY(longitudinalScale, longitudinalMeasurement, plotShiftX, columns, perpendicularScale, perpendicularMeasurement, plotShiftY, rows) ==
    [x |-> << NumDiv(NumAdd(NumDiv(NumSub(longitudinalScale, longitudinalMeasurement), Num(2)),
                            NumDiv(NumMul(plotShiftX, longitudinalMeasurement), columns)),
                     longitudinalScale),
              NumAdd(NumDiv(NumAdd(NumDiv(NumSub(longitudinalScale, longitudinalMeasurement), Num(2)),
                                   NumDiv(NumMul(plotShiftX, longitudinalMeasurement), columns)),
                            longitudinalScale),
                     NumDiv(longitudinalMeasurement, longitudinalScale)) >>,
     y |-> << NumDiv(NumAdd(NumDiv(NumSub(perpendicularScale, perpendicularMeasurement), Num(2)),
                            NumDiv(NumMul(plotShiftY, perpendicularMeasurement), columns)),
                     perpendicularScale),
              NumAdd(NumDiv(NumAdd(NumDiv(NumSub(perpendicularScale, perpendicularMeasurement), Num(2)),
                                   NumDiv(NumMul(plotShiftY, perpendicularMeasurement), columns)),
                            perpendicularScale),
                     NumDiv(perpendicularMeasurement, perpendicularScale)) >>]

calculateDomain(longitudinalScale, longitudinalMeasurement, plotShiftX, columns, perpendicularScale, perpendicularMeasurement, plotShiftY, rows) ==
    [x |-> << NumDiv(NumAdd(NumDiv(NumSub(longitudinalScale, longitudinalMeasurement), Num(2)),
                            NumDiv(NumMul(plotShiftX, longitudinalMeasurement), columns)),
                     longitudinalScale),
              NumAdd(NumDiv(NumAdd(NumDiv(NumSub(longitudinalScale, longitudinalMeasurement), Num(2)),
                                   NumDiv(NumMul(plotShiftX, longitudinalMeasurement), columns)),
                            longitudinalScale),
                     NumDiv(longitudinalMeasurement, longitudinalScale)) >>,
     y |-> << NumDiv(NumAdd(NumDiv(NumSub(perpendicularScale, perpendicularMeasurement), Num(2)),
                            NumDiv(NumMul(plotShiftY, perpendicularMeasurement), rows)),
                     perpendicularScale),
              NumAdd(NumDiv(NumAdd(NumDiv(NumSub(perpendicularScale, perpendicularMeasurement), Num(2)),
                                   NumDiv(NumMul(plotShiftY, perpendicularMeasurement), rows)),
                            perpendicularScale),
                     NumDiv(perpendicularMeasurement, perpendicularScale)) >>]

\* variant: the loops stop one short (i < columns, j < rows)
prepareGridDataShort(domain, columns, rows) ==
    [i \in 1..columns |->
        [type |-> "line",
         x0 |-> NumAdd(domain.x[1], NumMul(NumDiv(Num(i - 1), Num(columns)),
                                           NumSub(domain.x[2], domain.x[1]))),
         y0 |-> domain.y[1],
         x1 |-> NumAdd(domain.x[1], NumMul(NumDiv(Num(i - 1), Num(columns)),
                                           NumSub(domain.x[2], domain.x[1]))),
         y1 |-> domain.y[2]]]
    \o
    [j \in 1..rows |->
        [type |-> "line",
         x0 |-> domain.x[1],
         y0 |-> NumAdd(domain.y[1], NumMul(NumDiv(Num(j - 1), Num(rows)),
                                           NumSub(domain.y[2], domain.y[1]))),
         x1 |-> domain.x[2],
         y1 |-> NumAdd(domain.y[1], NumMul(NumDiv(Num(j - 1), Num(rows)),
                                           NumSub(domain.y[2], domain.y[1])))]]

\* the two loops of prepareGridData: i = 0..columns, then j = 0..rows
prepareGridData(domain, columns, rows) ==
    [i \in 1..(columns + 1) |->
        [type |-> "line",
         x0 |-> NumAdd(domain.x[1], NumMul(NumDiv(Num(i - 1), Num(columns)),
                                           NumSub(domain.x[2], domain.x[1]))),
         y0 |-> domain.y[1],
         x1 |-> NumAdd(domain.x[1], NumMul(NumDiv(Num(i - 1), Num(columns)),
                                           NumSub(domain.x[2], domain.x[1]))),
         y1 |-> domain.y[2]]]
    \o
    [j \in 1..(rows + 1) |->
        [type |-> "line",
         x0 |-> domain.x[1],
         y0 |-> NumAdd(domain.y[1], NumMul(NumDiv(Num(j - 1), Num(rows)),
                                           NumSub(domain.y[2], domain.y[1]))),
         x1 |-> domain.x[2],
         y1 |-> NumAdd(domain.y[1], NumMul(NumDiv(Num(j - 1), Num(rows)),
                                           NumSub(domain.y[2], domain.y[1])))]]

\* variant: the filter compares the magnitude of the sample
processDataMagnitude(ver, data) ==
    [k \in 1..Len(data) |->
        IF \/ NumLt([data[k] EXCEPT !.m = Abs(@)], LowerEps(ver))
           \/ NumGt([data[k] EXCEPT !.m = Abs(@)], UpperEps(ver))
        THEN Null ELSE data[k]]

\* variant: the bounds are exclusive (value <= lower || value >= upper)
processDataExclusive(ver, data) ==
    [k \in 1..Len(data) |->
        IF NumLe(data[k], LowerEps(ver)) \/ NumLe(UpperEps(ver), data[k])
        THEN Null ELSE data[k]]

\* data.map(value => (value < lower || value > upper) ? null : value)
processData(ver, data) ==
    [k \in 1..Len(data) |->
        IF NumLt(data[k], LowerEps(ver)) \/ NumGt(data[k], UpperEps(ver))
        THEN Null ELSE data[k]]

createLineData(xValues, processedData) ==
    [type |-> "scatter", x |-> xValues, y |-> processedData, connectgaps |-> FALSE]

\* spectralData[0][0].length throws a TypeError when spectralData[0] or
\* spectralData[0][0] is undefined
layoutThrows(spectralData) ==
    Len(spectralData) = 0 \/ Len(spectralData[1]) = 0

\* variant: the x range spans the container's width
configureLayoutRangeByContainer(domain, columns, spectralData, rows, container, gridData) ==
    [xaxis |-> [domain |-> domain.x,
                range |-> <<0, container.width>>],
     yaxis |-> [domain |-> domain.y, range |-> <<0, rows>>],
     margin |-> [l |-> 50, r |-> 50, b |-> 50, t |-> 50],
     width |-> container.width,
     height |-> container.height,
     shapes |-> gridData]

configureLayout(domain, columns, spectralData, rows, container, gridData) ==
    [xaxis |-> [domain |-> domain.x,
                range |-> <<0, columns * Len(spectralData[1][1])>>],
     yaxis |-> [domain |-> domain.y, range |-> <<0, rows>>],
     margin |-> [l |-> 50, r |-> 50, b |-> 50, t |-> 50],
     width |-> container.width,
     height |-> container.height,
     shapes |-> gridData]

\* variant: the trace is drawn whatever the visibility flag
updatePlotAlwaysTrace(ver, d, showHpMriData, container, prev) ==
    LET domain == calculateDomain(Num(d.longitudinalScale), Num(d.longitudinalMeasurement),
                                  Num(d.plotShift[1]), Num(d.columns),
                                  Num(d.perpendicularScale), Num(d.perpendicularMeasurement),
                                  Num(d.plotShift[2]), Num(d.rows))
        processedData == processData(ver, d.data)
        gridData == prepareGridData(domain, d.columns, d.rows)
        plotData == gridData \o << createLineData(d.xValues, processedData) >>
    IN  IF layoutThrows(d.spectralData) THEN prev
        ELSE << [plotData |-> plotData,
                 layout |-> configureLayout(domain, d.columns, d.spectralData, d.rows,
                                            container, gridData),
                 staticPlot |-> TRUE] >>

\* variant: the catch clears the plot
updatePlotClearsOnError(ver, d, showHpMriData, container, prev) ==
    LET domain == calculateDomain(Num(d.longitudinalScale), Num(d.longitudinalMeasurement),
                                  Num(d.plotShift[1]), Num(d.columns),
                                  Num(d.perpendicularScale), Num(d.perpendicularMeasurement),
                                  Num(d.plotShift[2]), Num(d.rows))
        processedData == processData(ver, d.data)
        gridData == prepareGridData(domain, d.columns, d.rows)
        plotData == IF showHpMriData
                    THEN gridData \o << createLineData(d.xValues, processedData) >>
                    ELSE gridData
    IN  IF layoutThrows(d.spectralData) THEN <<>>
        ELSE << [plotData |-> plotData,
                 layout |-> configureLayout(domain, d.columns, d.spectralData, d.rows,
                                            container, gridData),
                 staticPlot |-> TRUE] >>

\* The arguments of the Plotly.react call made by updatePlot, as a
\* one-element sequence; the previous call persists when updatePlot throws.
updatePlot(ver, d, showHpMriData, container, prev) ==
    LET domain == calculateDomain(Num(d.longitudinalScale), Num(d.longitudinalMeasurement),
                                  Num(d.plotShift[1]), Num(d.columns),
                                  Num(d.perpendicularScale), Num(d.perpendicularMeasurement),
                                  Num(d.plotShift[2]), Num(d.rows))
        processedData == processData(ver, d.data)
        gridData == prepareGridData(domain, d.columns, d.rows)
        plotData == IF showHpMriData
                    THEN gridData \o << createLineData(d.xValues, processedData) >>
                    ELSE gridData
    IN  IF layoutThrows(d.spectralData) THEN prev
        ELSE << [plotData |-> plotData,
                 layout |-> configureLayout(domain, d.columns, d.spectralData, d.rows,
                                            container, gridData),
                 staticPlot |-> TRUE] >>

(***************************************************************************)
(* State.                                                                  *)
(***************************************************************************)
VARIABLES
    plotVersion,      \* version of PlotComponent.js in use
    mounted,          \* the mount effects have run
    hpMriData,        \* HomePage: dataset record
    showHpMriData,    \* HomePage: visibility flag
    windowSize,       \* HomePage: window dimensions
    offsetX, offsetY, \* HomePage: pan offset (CSS translate of the plot container)
    datasetIndex, threshold, magnetType,
    imageUrl,         \* <<>> or <<request whose image is shown>>
    selecting, selectedGroup, groupA, groupB,
    isHpMriDataOn,    \* ButtonPanel: ON/OFF indicator
    pendingImage,     \* proton-image requests in flight, in order of issue
    pendingData,      \* dataset requests in flight, in order of issue
    plot,             \* <<>> or <<arguments of the last Plotly.react call>>
    plotError,        \* the last updatePlot caught and logged an error
    sliderValue,      \* ControlPanel: image slice
    contrastValue,    \* ControlPanel: contrast
    fetchErrorLogged, \* a .catch of a fetch has logged an error
    resizeListeners   \* registrations of the view's handleResize on the window

vars == << plotVersion, mounted, hpMriData, showHpMriData, windowSize, offsetX, offsetY,
           datasetIndex, threshold, magnetType, imageUrl, selecting, selectedGroup,
           groupA, groupB, isHpMriDataOn, pendingImage, pendingData, plot, plotError,
           sliderValue, contrastValue, fetchErrorLogged, resizeListeners >>

panVars == << offsetX, offsetY >>

selectVars == << selecting, selectedGroup, groupA, groupB >>

fetchVars == << datasetIndex, threshold, magnetType, imageUrl, pendingImage, pendingData >>

sliderVars == << sliderValue, contrastValue >>

(***************************************************************************)
(* Datasets.                                                               *)
(***************************************************************************)
\* a spectralData array of `rows` rows of `columns` spectra of `samples` samples
SpectralData(rows, columns, samples) ==
    [r \in 1..rows |-> [c \in 1..columns |-> [k \in 1..samples |-> 0]]]

Dataset(xValues, data, columns, rows, spectralData, long, perp, plotShift) ==
    [xValues |-> xValues, data |-> data, columns |-> columns, spectralData |-> spectralData,
     rows |-> rows, longitudinalScale |-> long[1], perpendicularScale |-> perp[1],
     longitudinalMeasurement |-> long[2], perpendicularMeasurement |-> perp[2],
     plotShift |-> plotShift]

\* useState initial value of hpMriData
InitialData == Dataset(<<>>, <<>>, 0, 0, <<>>, <<0, 0>>, <<0, 0>>, <<0, 0>>)

\* <<scale, measurement>> pairs, grid sizes and shifts of the datasets explored
Lengths == {<<40, 20>>, <<6, 5>>, <<0, 0>>}

Counts == {0, 2, 8}

Shifts == (0 - MaxShift)..MaxShift

\* one axis of a dataset: <<scale, measurement>>, count, shift
AxisParams == Lengths \X Counts \X Shifts

DefaultAxes == {<< <<40, 20>>, 8, 0 >>, << <<0, 0>>, 0, 0 >>}

Samples == {NumNeg(Num(5)), Zero, Lit(1, 100), Lit(1, 10), Num(5), Lit(99, 10), Lit(999, 100), Num(10)}

SeqsUpTo(S, n) == UNION {[1..k -> S] : k \in 0..n}

\* datasets that vary the geometry of one axis, and datasets that vary the trace
GeometryInputs ==
    {Dataset(<<1>>, <<Num(5)>>, ax[2], ay[2],
             IF wellFormed THEN SpectralData(MinInt(ay[2], 1), MinInt(ax[2], 1), 2) ELSE <<>>,
             ax[1], ay[1], <<ax[3], ay[3]>>) :
        ax \in AxisParams, ay \in AxisParams, wellFormed \in BOOLEAN}

TraceInputs ==
    {Dataset([k \in 1..Len(dat) |-> k], dat, 2, 2, SpectralData(1, 1, 2),
             <<40, 20>>, <<40, 20>>, <<0, 0>>) : dat \in SeqsUpTo(Samples, MaxLen)}

\* <<version, dataset>>: calculateDomain and prepareGridData are the same in every version
PlotInputs ==
    {<<"1.2.2", d>> : d \in {g \in GeometryInputs :
        \/ << <<g.longitudinalScale, g.longitudinalMeasurement>>, g.columns, g.plotShift[1] >> \in DefaultAxes
        \/ << <<g.perpendicularScale, g.perpendicularMeasurement>>, g.rows, g.plotShift[2] >> \in DefaultAxes}}
    \cup (PlotVersions \X TraceInputs)

WindowSizes == {[width |-> 800, height |-> 600], [width |-> 1280, height |-> 720]}

\* size of the plot container (styled 100% x 100%) laid out in a window
ContainerOf(ws) ==
    IF ws.width = 800 THEN [width |-> 100, height |-> 100]
    ELSE IF ws.width = 1280 THEN [width |-> 460, height |-> 380]
    ELSE [width |-> 1280, height |-> 720]

\* a window large enough for the plot grid to overlap the rectangle of accepted clicks
LargeWindow == [width |-> 2560, height |-> 1440]

(***************************************************************************)
(* The external imaging service: the dataset served for a request.         *)
(***************************************************************************)
DatasetIndices == {3, 4}

Backend(req) ==
    LET xv == IF req.magnetType = "HUPC" THEN <<1, 2>> ELSE <<1, 3>>
        dat == IF req.threshold = "0.2" THEN <<Num(5), Lit(1, 100)>> ELSE <<Num(5), Zero>>
    IN  IF req.index = 3
        THEN Dataset(xv, dat, 8, 2, SpectralData(1, 1, 2), <<40, 20>>, <<40, 20>>, <<0, 0>>)
        ELSE Dataset(xv, dat, 2, 2, SpectralData(1, 1, 2), <<6, 5>>, <<0, 0>>, <<0 - 1, 1>>)

(***************************************************************************)
(* PlotComponent: the effect that redraws the plot when a dependency       *)
(* changes.                                                                *)
(***************************************************************************)
\* useEffect(() => updatePlot(), [windowSize, showHpMriData, xValues, data, ...])
Redraw(d, show, ws) ==
    /\ plot' = updatePlot(plotVersion, d, show, ContainerOf(ws), plot)
    /\ plotError' = layoutThrows(d.spectralData)

(***************************************************************************)
(* PlotComponent alone, rendered by a parent with arbitrary props.         *)
(***************************************************************************)
InitHome ==
    /\ mounted = FALSE
    /\ hpMriData = InitialData
    /\ showHpMriData = FALSE
    /\ windowSize = [width |-> 1280, height |-> 720]
    /\ offsetX = 0 /\ offsetY = 0
    /\ datasetIndex = 3
    /\ threshold = "0.2"
    /\ magnetType = "HUPC"
    /\ imageUrl = <<>>
    /\ selecting = FALSE
    /\ selectedGroup = "A"
    /\ groupA = <<>> /\ groupB = <<>>
    /\ isHpMriDataOn = FALSE
    /\ pendingImage = <<>> /\ pendingData = <<>>
    /\ plot = <<>>
    /\ plotError = FALSE
    /\ sliderValue = 3
    /\ contrastValue = 1
    /\ fetchErrorLogged = FALSE
    /\ resizeListeners = 0

InitPlot ==
    /\ \E input \in PlotInputs : plotVersion = input[1] /\ hpMriData = input[2]
    /\ mounted = FALSE
    /\ showHpMriData = FALSE
    /\ windowSize = [width |-> 1280, height |-> 720]
    /\ offsetX = 0 /\ offsetY = 0
    /\ datasetIndex = 3
    /\ threshold = "0.2"
    /\ magnetType = "HUPC"
    /\ imageUrl = <<>>
    /\ selecting = FALSE
    /\ selectedGroup = "A"
    /\ groupA = <<>> /\ groupB = <<>>
    /\ isHpMriDataOn = FALSE
    /\ pendingImage = <<>> /\ pendingData = <<>>
    /\ plot = <<>>
    /\ plotError = FALSE
    /\ sliderValue = 3
    /\ contrastValue = 1
    /\ fetchErrorLogged = FALSE
    /\ resizeListeners = 0

\* first run of the effect, after the component mounts
PlotMount ==
    /\ ~mounted
    /\ mounted' = TRUE
    /\ Redraw(hpMriData, showHpMriData, windowSize)
    /\ UNCHANGED << resizeListeners, plotVersion, sliderVars, fetchErrorLogged, hpMriData, showHpMriData, windowSize, panVars, selectVars,
                    fetchVars, isHpMriDataOn >>

\* the parent changes the showHpMriData prop
PlotShowChange ==
    /\ mounted
    /\ showHpMriData' = ~showHpMriData
    /\ Redraw(hpMriData, ~showHpMriData, windowSize)
    /\ UNCHANGED << resizeListeners, plotVersion, sliderVars, fetchErrorLogged, mounted, hpMriData, windowSize, panVars, selectVars,
                    fetchVars, isHpMriDataOn >>

\* the parent changes the windowSize prop
PlotWindowChange(ws) ==
    /\ mounted
    /\ windowSize' = ws
    /\ Redraw(hpMriData, showHpMriData, ws)
    /\ UNCHANGED << resizeListeners, plotVersion, sliderVars, fetchErrorLogged, mounted, hpMriData, showHpMriData, panVars, selectVars,
                    fetchVars, isHpMriDataOn >>

NextPlot ==
    \/ PlotMount
    \/ PlotShowChange
    \/ \E ws \in WindowSizes : PlotWindowChange(ws)

SpecPlot == InitPlot /\ [][NextPlot]_vars

\* spectralData props explored: empty, a first row without a first column, well formed
SpectralInputs == {<<>>, << <<>> >>, SpectralData(1, 1, 2)}

\* the parent passes a new dataset (new xValues and data arrays with the same
\* values, so the effect runs) with another spectralData
PlotDatasetChange(spectralData) ==
    /\ mounted
    /\ spectralData # hpMriData.spectralData
    /\ hpMriData' = [hpMriData EXCEPT !.spectralData = spectralData]
    /\ Redraw([hpMriData EXCEPT !.spectralData = spectralData], showHpMriData, windowSize)
    /\ UNCHANGED << resizeListeners, plotVersion, sliderVars, fetchErrorLogged, mounted, showHpMriData,
                    windowSize, panVars, selectVars, fetchVars, isHpMriDataOn >>

\* PlotComponent rendered with datasets whose spectralData comes and goes
NextProps ==
    \/ PlotMount
    \/ \E spectralData \in SpectralInputs : PlotDatasetChange(spectralData)

SpecProps == InitPlot /\ [][NextProps]_vars

\* well-formed spectralData props of two sample lengths
SpectralLengths == {SpectralData(1, 1, 2), SpectralData(1, 1, 3)}

\* the parent passes another spectralData and the same xValues, data, grid
\* sizes, lengths and plotShift: spectralData is not a dependency of the
\* effect, which does not run
PlotSpectralDataChange(spectralData) ==
    /\ mounted
    /\ spectralData # hpMriData.spectralData
    /\ hpMriData' = [hpMriData EXCEPT !.spectralData = spectralData]
    /\ UNCHANGED << resizeListeners, plotVersion, sliderVars, fetchErrorLogged, mounted, showHpMriData,
                    windowSize, panVars, selectVars, fetchVars, isHpMriDataOn, plot,
                    plotError >>

\* PlotComponent rendered by a parent that changes each prop
NextRerender ==
    \/ PlotMount
    \/ PlotShowChange
    \/ \E ws \in WindowSizes : PlotWindowChange(ws)
    \/ \E spectralData \in SpectralLengths : PlotDatasetChange(spectralData)
    \/ \E spectralData \in SpectralLengths : PlotSpectralDataChange(spectralData)

SpecRerender == InitPlot /\ [][NextRerender]_vars

(***************************************************************************)
(* HomePage (version 1.2.2) with ButtonPanel, ControlPanel and             *)
(* PlotComponent 1.2.2.                                                    *)
(***************************************************************************)
Init == plotVersion = "1.2.2" /\ InitHome

InFlight == Len(pendingImage) + Len(pendingData)

RemoveAt(q, i) == [k \in 1..(Len(q) - 1) |-> IF k < i THEN q[k] ELSE q[k + 1]]

\* the request sent by sendDatasetToBackend(newDatasetIndex)
DatasetRequest(newDatasetIndex) ==
    [index |-> newDatasetIndex, threshold |-> threshold, magnetType |-> magnetType]

\* the request sent by sendSliderValueToBackend(newValue, newContrastValue)
ImageRequest(newValue, newContrastValue) ==
    [slice |-> newValue, contrast |-> newContrastValue, magnetType |-> magnetType]

\* mount effects: PlotComponent draws the initial props, HomePage calls
\* fetchInitialData and registers handleResize on the window
Mount ==
    /\ ~mounted
    /\ mounted' = TRUE
    /\ resizeListeners' = resizeListeners + 1
    /\ pendingImage' = Append(pendingImage, ImageRequest(3, 1))
    /\ pendingData' = Append(pendingData, DatasetRequest(3))
    /\ Redraw(hpMriData, showHpMriData, windowSize)
    /\ UNCHANGED << plotVersion, sliderVars, fetchErrorLogged, hpMriData, showHpMriData, windowSize, panVars, selectVars,
                    datasetIndex, threshold, magnetType, imageUrl, isHpMriDataOn >>

\* variant: a response is applied only if no later request is in flight
DatasetResponseLatestOnly(i) ==
    /\ i \in 1..Len(pendingData)
    /\ hpMriData' = IF i = Len(pendingData) THEN Backend(pendingData[i]) ELSE hpMriData
    /\ pendingData' = RemoveAt(pendingData, i)
    /\ Redraw(IF i = Len(pendingData) THEN Backend(pendingData[i]) ELSE hpMriData,
              showHpMriData, windowSize)
    /\ UNCHANGED << resizeListeners, plotVersion, sliderVars, fetchErrorLogged, mounted, showHpMriData,
                    windowSize, panVars, selectVars, datasetIndex, threshold, magnetType,
                    imageUrl, pendingImage, isHpMriDataOn >>

\* variant: a failed request resets the dataset to the placeholder
DatasetFailureClears(i) ==
    /\ i \in 1..Len(pendingData)
    /\ pendingData' = RemoveAt(pendingData, i)
    /\ fetchErrorLogged' = TRUE
    /\ hpMriData' = InitialData
    /\ UNCHANGED << resizeListeners, plotVersion, sliderVars, mounted, showHpMriData, windowSize, panVars,
                    selectVars, datasetIndex, threshold, magnetType, imageUrl, pendingImage,
                    isHpMriDataOn, plot, plotError >>

\* variant: a new dataset discards the voxels recorded against the old one
DatasetResponseClearsVoxels(i) ==
    /\ i \in 1..Len(pendingData)
    /\ hpMriData' = Backend(pendingData[i])
    /\ pendingData' = RemoveAt(pendingData, i)
    /\ groupA' = <<>>
    /\ groupB' = <<>>
    /\ Redraw(Backend(pendingData[i]), showHpMriData, windowSize)
    /\ UNCHANGED << resizeListeners, plotVersion, sliderVars, fetchErrorLogged, mounted, showHpMriData,
                    windowSize, panVars, selecting, selectedGroup, datasetIndex, threshold,
                    magnetType, imageUrl, pendingImage, isHpMriDataOn >>

\* variant: the response is merged into the dataset held, whose plotShift it keeps
DatasetResponseMerges(i) ==
    /\ i \in 1..Len(pendingData)
    /\ hpMriData' = [Backend(pendingData[i]) EXCEPT !.plotShift = hpMriData.plotShift]
    /\ pendingData' = RemoveAt(pendingData, i)
    /\ Redraw([Backend(pendingData[i]) EXCEPT !.plotShift = hpMriData.plotShift],
              showHpMriData, windowSize)
    /\ UNCHANGED << resizeListeners, plotVersion, sliderVars, fetchErrorLogged, mounted, showHpMriData,
                    windowSize, panVars, selectVars, datasetIndex, threshold, magnetType,
                    imageUrl, pendingImage, isHpMriDataOn >>

\* .then(data => setHpMriData(data)) of the i-th dataset request in flight
DatasetResponse(i) ==
    /\ i \in 1..Len(pendingData)
    /\ hpMriData' = Backend(pendingData[i])
    /\ pendingData' = RemoveAt(pendingData, i)
    /\ Redraw(Backend(pendingData[i]), showHpMriData, windowSize)
    /\ UNCHANGED << resizeListeners, plotVersion, sliderVars, fetchErrorLogged, mounted, showHpMriData, windowSize, panVars, selectVars,
                    datasetIndex, threshold, magnetType, imageUrl, pendingImage, isHpMriDataOn >>

\* .catch(error => console.error(...)) of the i-th dataset request in flight
DatasetFailure(i) ==
    /\ i \in 1..Len(pendingData)
    /\ pendingData' = RemoveAt(pendingData, i)
    /\ fetchErrorLogged' = TRUE
    /\ UNCHANGED << resizeListeners, plotVersion, sliderVars, mounted, hpMriData, showHpMriData, windowSize, panVars,
                    selectVars, datasetIndex, threshold, magnetType, imageUrl, pendingImage,
                    isHpMriDataOn, plot, plotError >>

\* .then(imageBlob => setImageUrl(URL.createObjectURL(imageBlob)))
ImageResponse(i) ==
    /\ i \in 1..Len(pendingImage)
    /\ imageUrl' = << pendingImage[i] >>
    /\ pendingImage' = RemoveAt(pendingImage, i)
    /\ UNCHANGED << resizeListeners, plotVersion, sliderVars, fetchErrorLogged, mounted, hpMriData, showHpMriData, windowSize, panVars,
                    selectVars, datasetIndex, threshold, magnetType, pendingData,
                    isHpMriDataOn, plot, plotError >>

ImageFailure(i) ==
    /\ i \in 1..Len(pendingImage)
    /\ pendingImage' = RemoveAt(pendingImage, i)
    /\ fetchErrorLogged' = TRUE
    /\ UNCHANGED << resizeListeners, plotVersion, sliderVars, mounted, hpMriData, showHpMriData, windowSize, panVars,
                    selectVars, datasetIndex, threshold, magnetType, imageUrl, pendingData,
                    isHpMriDataOn, plot, plotError >>

\* variant: the request carries the index held before the change
handleDatasetChangeStale(newDatasetIndex) ==
    /\ mounted
    /\ newDatasetIndex # datasetIndex
    /\ InFlight < MaxInFlight
    /\ datasetIndex' = newDatasetIndex
    /\ pendingData' = Append(pendingData, DatasetRequest(datasetIndex))
    /\ UNCHANGED << resizeListeners, plotVersion, sliderVars, fetchErrorLogged, mounted, hpMriData,
                    showHpMriData, windowSize, panVars, selectVars, threshold, magnetType,
                    imageUrl, pendingImage, isHpMriDataOn, plot, plotError >>

\* dataset slider of the ControlPanel: setDatasetIndex, sendDatasetToBackend
handleDatasetChange(newDatasetIndex) ==
    /\ mounted
    /\ newDatasetIndex # datasetIndex
    /\ InFlight < MaxInFlight
    /\ datasetIndex' = newDatasetIndex
    /\ pendingData' = Append(pendingData, DatasetRequest(newDatasetIndex))
    /\ UNCHANGED << resizeListeners, plotVersion, sliderVars, fetchErrorLogged, mounted, hpMriData, showHpMriData, windowSize, panVars,
                    selectVars, threshold, magnetType, imageUrl, pendingImage,
                    isHpMriDataOn, plot, plotError >>

\* variant: the handler also runs for the option that is already checked
handleToggleHpMriDataAnyOption(newStatus) ==
    /\ mounted
    /\ InFlight < MaxInFlight
    /\ isHpMriDataOn' = (newStatus = "on")
    /\ showHpMriData' = ~showHpMriData
    /\ pendingData' = Append(pendingData, DatasetRequest(datasetIndex))
    /\ Redraw(hpMriData, ~showHpMriData, windowSize)
    /\ UNCHANGED << resizeListeners, plotVersion, sliderVars, fetchErrorLogged, mounted,
                    hpMriData, windowSize, panVars, selectVars, datasetIndex, threshold,
                    magnetType, imageUrl, pendingImage >>

\* ON/OFF radio of the ButtonPanel: handleToggleHpMriData(newStatus) sets the
\* indicator and calls toggleHpMriData, which flips the flag and refetches
handleToggleHpMriData(newStatus) ==
    /\ mounted
    /\ (newStatus = "on") # isHpMriDataOn
    /\ InFlight < MaxInFlight
    /\ isHpMriDataOn' = (newStatus = "on")
    /\ showHpMriData' = ~showHpMriData
    /\ pendingData' = Append(pendingData, DatasetRequest(datasetIndex))
    /\ Redraw(hpMriData, ~showHpMriData, windowSize)
    /\ UNCHANGED << resizeListeners, plotVersion, sliderVars, fetchErrorLogged, mounted, hpMriData, windowSize, panVars, selectVars,
                    datasetIndex, threshold, magnetType, imageUrl, pendingImage >>

\* values of the sliders and selects explored
SliceValues == {3, 4}

ContrastValues == {1, 2}

ThresholdValues == {"0.2", "0.5"}

MagnetTypes == {"HUPC", "Clinical"}

\* image slice slider of the ControlPanel: handleImageSliceChange sets
\* sliderValue and calls onSliderChange(newValue, contrastValue)
handleImageSliceChange(newValue) ==
    /\ mounted
    /\ newValue # sliderValue
    /\ InFlight < MaxInFlight
    /\ sliderValue' = newValue
    /\ pendingImage' = Append(pendingImage, ImageRequest(newValue, contrastValue))
    /\ UNCHANGED << resizeListeners, plotVersion, contrastValue, fetchErrorLogged, mounted, hpMriData,
                    showHpMriData, windowSize, panVars, selectVars, datasetIndex, threshold,
                    magnetType, imageUrl, pendingData, isHpMriDataOn, plot, plotError >>

\* variant: the request carries the contrast held before the change
handleContrastAdjustmentStale(newContrastValue) ==
    /\ mounted
    /\ newContrastValue # contrastValue
    /\ InFlight < MaxInFlight
    /\ contrastValue' = newContrastValue
    /\ pendingImage' = Append(pendingImage, ImageRequest(sliderValue, contrastValue))
    /\ UNCHANGED << resizeListeners, plotVersion, sliderValue, fetchErrorLogged, mounted, hpMriData,
                    showHpMriData, windowSize, panVars, selectVars, datasetIndex, threshold,
                    magnetType, imageUrl, pendingData, isHpMriDataOn, plot, plotError >>

\* contrast slider of the ControlPanel: handleContrastAdjustment sets
\* contrastValue and calls onContrastChange(sliderValue, newContrastValue)
handleContrastAdjustment(newContrastValue) ==
    /\ mounted
    /\ newContrastValue # contrastValue
    /\ InFlight < MaxInFlight
    /\ contrastValue' = newContrastValue
    /\ pendingImage' = Append(pendingImage, ImageRequest(sliderValue, newContrastValue))
    /\ UNCHANGED << resizeListeners, plotVersion, sliderValue, fetchErrorLogged, mounted, hpMriData,
                    showHpMriData, windowSize, panVars, selectVars, datasetIndex, threshold,
                    magnetType, imageUrl, pendingData, isHpMriDataOn, plot, plotError >>

\* threshold slider of the ButtonPanel: setThreshold(event.target.value)
handleThresholdChange(value) ==
    /\ mounted
    /\ value # threshold
    /\ threshold' = value
    /\ UNCHANGED << resizeListeners, plotVersion, sliderVars, fetchErrorLogged, mounted, hpMriData,
                    showHpMriData, windowSize, panVars, selectVars, datasetIndex, magnetType,
                    imageUrl, pendingImage, pendingData, isHpMriDataOn, plot, plotError >>

\* magnet select of the ButtonPanel: setMagnetType(newType)
handleMagnetTypeChange(newType) ==
    /\ mounted
    /\ newType # magnetType
    /\ magnetType' = newType
    /\ UNCHANGED << resizeListeners, plotVersion, sliderVars, fetchErrorLogged, mounted, hpMriData,
                    showHpMriData, windowSize, panVars, selectVars, datasetIndex, threshold,
                    imageUrl, pendingImage, pendingData, isHpMriDataOn, plot, plotError >>

PanRange == {10 * k : k \in (0 - MaxPan)..MaxPan}

panFrame == << resizeListeners, plotVersion, sliderVars, fetchErrorLogged, mounted, hpMriData, showHpMriData, windowSize, selectVars,
               fetchVars, isHpMriDataOn, plot, plotError >>

\* variant: a pan step also redraws the plot with the pan offset as the shift
moveRightRedraws ==
    /\ mounted /\ offsetX + 10 \in PanRange
    /\ offsetX' = offsetX + 10
    /\ plot' = updatePlot(plotVersion, [hpMriData EXCEPT !.plotShift = <<offsetX + 10, offsetY>>],
                          showHpMriData, ContainerOf(windowSize), plot)
    /\ UNCHANGED << offsetY, resizeListeners, plotVersion, sliderVars, fetchErrorLogged, mounted, hpMriData, showHpMriData, windowSize,
                    selectVars, fetchVars, isHpMriDataOn, plotError >>

\* variant: a pan step of half the size
moveLeftHalfStep ==
    /\ mounted /\ offsetX - 10 \in PanRange
    /\ offsetX' = offsetX - 5
    /\ UNCHANGED << offsetY, panFrame >>

moveLeft ==
    /\ mounted /\ offsetX - 10 \in PanRange
    /\ offsetX' = offsetX - 10
    /\ UNCHANGED << offsetY, panFrame >>

moveRight ==
    /\ mounted /\ offsetX + 10 \in PanRange
    /\ offsetX' = offsetX + 10
    /\ UNCHANGED << offsetY, panFrame >>

moveUp ==
    /\ mounted /\ offsetY - 10 \in PanRange
    /\ offsetY' = offsetY - 10
    /\ UNCHANGED << offsetX, panFrame >>

moveDown ==
    /\ mounted /\ offsetY + 10 \in PanRange
    /\ offsetY' = offsetY + 10
    /\ UNCHANGED << offsetX, panFrame >>

resetPlotShift ==
    /\ mounted
    /\ offsetX' = 0
    /\ offsetY' = 0
    /\ UNCHANGED panFrame

\* resize listener: setWindowSize; the windowSize prop of PlotComponent changes
handleResize(ws) ==
    /\ mounted /\ resizeListeners > 0
    /\ windowSize' = ws
    /\ Redraw(hpMriData, showHpMriData, ws)
    /\ UNCHANGED << resizeListeners, plotVersion, sliderVars, fetchErrorLogged, mounted, hpMriData, showHpMriData, panVars, selectVars,
                    fetchVars, isHpMriDataOn >>

(***************************************************************************)
(* Voxel selection.                                                        *)
(***************************************************************************)
\* useState initial values of the calibration constants
offsetSelectX == 0 - 263

offsetSelectY == 0 - 98

scaleOffsetX == Lit(1335, 1000)

scaleOffsetY == Lit(1875, 1000)

\* plotContainerRef.current.getBoundingClientRect(): the container is
\* translated by (offsetX, offsetY) from its place in the layout
PlotRect ==
    [left |-> offsetX, top |-> offsetY,
     width |-> ContainerOf(windowSize).width, height |-> ContainerOf(windowSize).height]

xInsidePlot(clientX, plotRect) == clientX - plotRect.left - offsetSelectX

yInsidePlot(clientY, plotRect) == clientY - plotRect.top - offsetSelectY

\* variant: the bounds of the rectangle are exclusive
ClickAcceptedStrict(clientX, clientY, plotRect) ==
    /\ xInsidePlot(clientX, plotRect) > 0
    /\ xInsidePlot(clientX, plotRect) < plotRect.width - offsetSelectX - 450
    /\ yInsidePlot(clientY, plotRect) > 0
    /\ yInsidePlot(clientY, plotRect) < plotRect.height - offsetSelectY - 370

\* variant: the rectangle has no lower bounds
ClickAcceptedNoLowerBound(clientX, clientY, plotRect) ==
    /\ xInsidePlot(clientX, plotRect) <= plotRect.width - offsetSelectX - 450
    /\ yInsidePlot(clientY, plotRect) <= plotRect.height - offsetSelectY - 370

\* the condition of the if statement of handleVoxelSelect
ClickAccepted(clientX, clientY, plotRect) ==
    /\ xInsidePlot(clientX, plotRect) >= 0
    /\ xInsidePlot(clientX, plotRect) <= plotRect.width - offsetSelectX - 450
    /\ yInsidePlot(clientY, plotRect) >= 0
    /\ yInsidePlot(clientY, plotRect) <= plotRect.height - offsetSelectY - 370

\* variant: the row is scaled by the container's width
VoxelAtRowByWidth(clientX, clientY, plotRect) ==
    LET scaleX == NumMul(NumDiv(Num(hpMriData.columns), Num(plotRect.width)), scaleOffsetX)
        scaleY == NumMul(NumDiv(Num(hpMriData.rows), Num(plotRect.width)), scaleOffsetY)
    IN  [x |-> xInsidePlot(clientX, plotRect),
         y |-> yInsidePlot(clientY, plotRect),
         column |-> NumFloor(NumMul(Num(xInsidePlot(clientX, plotRect)), scaleX)),
         row |-> NumFloor(NumMul(Num(yInsidePlot(clientY, plotRect)), scaleY))]

\* variant: the indices are clamped to the grid of the dataset
VoxelAtClamped(clientX, clientY, plotRect) ==
    LET scaleX == NumMul(NumDiv(Num(hpMriData.columns), Num(plotRect.width)), scaleOffsetX)
        scaleY == NumMul(NumDiv(Num(hpMriData.rows), Num(plotRect.height)), scaleOffsetY)
    IN  [x |-> xInsidePlot(clientX, plotRect),
         y |-> yInsidePlot(clientY, plotRect),
         column |-> MinInt(NumFloor(NumMul(Num(xInsidePlot(clientX, plotRect)), scaleX)),
                           hpMriData.columns - 1),
         row |-> MinInt(NumFloor(NumMul(Num(yInsidePlot(clientY, plotRect)), scaleY)),
                        hpMriData.rows - 1)]

\* variant: the column and the row are moved by the plotShift of the dataset
VoxelAtShifted(clientX, clientY, plotRect) ==
    LET scaleX == NumMul(NumDiv(Num(hpMriData.columns), Num(plotRect.width)), scaleOffsetX)
        scaleY == NumMul(NumDiv(Num(hpMriData.rows), Num(plotRect.height)), scaleOffsetY)
    IN  [x |-> xInsidePlot(clientX, plotRect),
         y |-> yInsidePlot(clientY, plotRect),
         column |-> NumFloor(NumMul(Num(xInsidePlot(clientX, plotRect)), scaleX))
                        - hpMriData.plotShift[1],
         row |-> NumFloor(NumMul(Num(yInsidePlot(clientY, plotRect)), scaleY))
                        - hpMriData.plotShift[2]]

VoxelAt(clientX, clientY, plotRect) ==
    LET scaleX == NumMul(NumDiv(Num(hpMriData.columns), Num(plotRect.width)), scaleOffsetX)
        scaleY == NumMul(NumDiv(Num(hpMriData.rows), Num(plotRect.height)), scaleOffsetY)
    IN  [x |-> xInsidePlot(clientX, plotRect),
         y |-> yInsidePlot(clientY, plotRect),
         column |-> NumFloor(NumMul(Num(xInsidePlot(clientX, plotRect)), scaleX)),
         row |-> NumFloor(NumMul(Num(yInsidePlot(clientY, plotRect)), scaleY))]

\* pointer positions explored, relative to the top-left corner of the container
ClickOffsets ==
    {<<0 - 263, 0 - 98>>, <<10, 10>>, <<0 - 264, 0 - 98>>, <<0 - 263, 0 - 99>>,
     <<11, 10>>, <<10, 11>>}

\* variant: the new voxel is put in front of the group
handleVoxelSelectPrepends(clientX, clientY) ==
    /\ mounted
    /\ IF selecting /\ ClickAccepted(clientX, clientY, PlotRect)
       THEN /\ Len(groupA) + Len(groupB) < MaxVoxels
            /\ IF selectedGroup = "A"
               THEN /\ groupA' = << VoxelAt(clientX, clientY, PlotRect) >> \o groupA
                    /\ groupB' = groupB
               ELSE /\ groupB' = << VoxelAt(clientX, clientY, PlotRect) >> \o groupB
                    /\ groupA' = groupA
       ELSE UNCHANGED << groupA, groupB >>
    /\ UNCHANGED << resizeListeners, plotVersion, sliderVars, fetchErrorLogged, mounted, hpMriData,
                    showHpMriData, windowSize, panVars, selecting, selectedGroup, fetchVars,
                    isHpMriDataOn, plot, plotError >>

\* variant: the click is handled whether selecting is on or off
handleVoxelSelectUngated(clientX, clientY) ==
    /\ mounted
    /\ IF ClickAccepted(clientX, clientY, PlotRect)
       THEN /\ Len(groupA) + Len(groupB) < MaxVoxels
            /\ IF selectedGroup = "A"
               THEN /\ groupA' = Append(groupA, VoxelAt(clientX, clientY, PlotRect))
                    /\ groupB' = groupB
               ELSE /\ groupB' = Append(groupB, VoxelAt(clientX, clientY, PlotRect))
                    /\ groupA' = groupA
       ELSE UNCHANGED << groupA, groupB >>
    /\ UNCHANGED << resizeListeners, plotVersion, sliderVars, fetchErrorLogged, mounted, hpMriData,
                    showHpMriData, windowSize, panVars, selecting, selectedGroup, fetchVars,
                    isHpMriDataOn, plot, plotError >>

\* onClick of the image-and-plot container
handleVoxelSelect(clientX, clientY) ==
    /\ mounted
    /\ IF selecting /\ ClickAccepted(clientX, clientY, PlotRect)
       THEN /\ Len(groupA) + Len(groupB) < MaxVoxels
            /\ IF selectedGroup = "A"
               THEN /\ groupA' = Append(groupA, VoxelAt(clientX, clientY, PlotRect))
                    /\ groupB' = groupB
               ELSE /\ groupB' = Append(groupB, VoxelAt(clientX, clientY, PlotRect))
                    /\ groupA' = groupA
       ELSE UNCHANGED << groupA, groupB >>
    /\ UNCHANGED << resizeListeners, plotVersion, sliderVars, fetchErrorLogged, mounted, hpMriData, showHpMriData, windowSize, panVars,
                    selecting, selectedGroup, fetchVars, isHpMriDataOn, plot, plotError >>

toggleSelecting ==
    /\ mounted
    /\ selecting' = ~selecting
    /\ UNCHANGED << resizeListeners, plotVersion, sliderVars, fetchErrorLogged, mounted, hpMriData, showHpMriData, windowSize, panVars,
                    selectedGroup, groupA, groupB, fetchVars, isHpMriDataOn, plot, plotError >>

\* group radio of the ButtonPanel: onSetSelectedGroup(group)
setSelectedGroup(group) ==
    /\ mounted
    /\ group # selectedGroup
    /\ selectedGroup' = group
    /\ UNCHANGED << resizeListeners, plotVersion, sliderVars, fetchErrorLogged, mounted, hpMriData, showHpMriData, windowSize, panVars,
                    selecting, groupA, groupB, fetchVars, isHpMriDataOn, plot, plotError >>

resetVoxels ==
    /\ mounted
    /\ groupA' = <<>>
    /\ groupB' = <<>>
    /\ UNCHANGED << resizeListeners, plotVersion, sliderVars, fetchErrorLogged, mounted, hpMriData, showHpMriData, windowSize, panVars,
                    selecting, selectedGroup, fetchVars, isHpMriDataOn, plot, plotError >>

Pan == moveLeft \/ moveRight \/ moveUp \/ moveDown \/ resetPlotShift

Responses ==
    \/ \E i \in 1..MaxInFlight : DatasetResponse(i) \/ DatasetFailure(i)
    \/ \E i \in 1..MaxInFlight : ImageResponse(i) \/ ImageFailure(i)

\* a session in which the user loads datasets, toggles the plot data, pans and resizes
Next ==
    \/ Mount
    \/ Responses
    \/ \E newDatasetIndex \in DatasetIndices : handleDatasetChange(newDatasetIndex)
    \/ \E newStatus \in {"on", "off"} : handleToggleHpMriData(newStatus)
    \/ Pan
    \/ \E ws \in WindowSizes : handleResize(ws)

Spec == Init /\ [][Next]_vars

\* a session in which the dataset loads and the user pans, resizes and selects voxels
NextSelect ==
    \/ Mount
    \/ \E i \in 1..MaxInFlight : DatasetResponse(i)
    \/ Pan
    \/ \E ws \in WindowSizes : handleResize(ws)
    \/ toggleSelecting
    \/ \E group \in {"A", "B"} : setSelectedGroup(group)
    \/ \E p \in ClickOffsets : handleVoxelSelect(PlotRect.left + p[1], PlotRect.top + p[2])
    \/ resetVoxels

SpecSelect == Init /\ [][NextSelect]_vars

\* a session in which the user moves the slice, contrast and dataset sliders
\* while responses arrive or fail in any order
NextFetch ==
    \/ Mount
    \/ Responses
    \/ \E newValue \in SliceValues : handleImageSliceChange(newValue)
    \/ \E newContrastValue \in ContrastValues : handleContrastAdjustment(newContrastValue)
    \/ \E newDatasetIndex \in DatasetIndices : handleDatasetChange(newDatasetIndex)

SpecFetch == Init /\ [][NextFetch]_vars

\* a session in which the user changes what the dataset request depends on
NextData ==
    \/ Mount
    \/ \E i \in 1..MaxInFlight : DatasetResponse(i)
    \/ \E newDatasetIndex \in DatasetIndices : handleDatasetChange(newDatasetIndex)
    \/ \E newStatus \in {"on", "off"} : handleToggleHpMriData(newStatus)
    \/ \E value \in ThresholdValues : handleThresholdChange(value)
    \/ \E newType \in MagnetTypes : handleMagnetTypeChange(newType)

SpecData == Init /\ [][NextData]_vars

\* the dataset served for the request of the mount
FirstDataset == Backend([index |-> 3, threshold |-> "0.2", magnetType |-> "HUPC"])

\* a session in which the user picks voxels on the first dataset, asks for a
\* dataset only when none is awaited, and changes the request parameters, the
\* pan offset, the selecting mode and the active group at any time
NextGroups ==
    \/ Mount
    \/ \E i \in 1..MaxInFlight : DatasetResponse(i)
    \/ \E newDatasetIndex \in DatasetIndices :
          pendingData = <<>> /\ handleDatasetChange(newDatasetIndex)
    \/ \E newStatus \in {"on", "off"} :
          pendingData = <<>> /\ handleToggleHpMriData(newStatus)
    \/ \E value \in ThresholdValues : handleThresholdChange(value)
    \/ \E newType \in MagnetTypes : handleMagnetTypeChange(newType)
    \/ moveRight
    \/ resetPlotShift
    \/ toggleSelecting
    \/ \E group \in {"A", "B"} : setSelectedGroup(group)
    \/ hpMriData = FirstDataset /\ handleVoxelSelect(PlotRect.left + 10, PlotRect.top + 10)
    \/ resetVoxels

SpecGroups == Init /\ [][NextGroups]_vars

\* pointer positions inside the large container, relative to its top-left
\* corner: inside the grid, on the far corner of the rectangle of accepted
\* clicks, and just beyond that corner
PickOffsets == {<<380, 300>>, <<830, 350>>, <<831, 350>>}

\* a session in which the window is enlarged or restored and the user picks
\* voxels on the datasets loaded
NextPick ==
    \/ Mount
    \/ \E i \in 1..MaxInFlight : DatasetResponse(i)
    \/ \E newDatasetIndex \in DatasetIndices :
          pendingData = <<>> /\ handleDatasetChange(newDatasetIndex)
    \/ \E ws \in {LargeWindow, [width |-> 1280, height |-> 720]} : handleResize(ws)
    \/ moveRight
    \/ resetPlotShift
    \/ toggleSelecting
    \/ \E p \in PickOffsets : handleVoxelSelect(PlotRect.left + p[1], PlotRect.top + p[2])
    \/ resetVoxels

SpecPick == Init /\ [][NextPick]_vars

\* variant: the cleanup of the mount effect leaves the listener registered
UnmountKeepsListener ==
    /\ mounted
    /\ mounted' = FALSE
    /\ hpMriData' = InitialData
    /\ showHpMriData' = FALSE /\ isHpMriDataOn' = FALSE
    /\ windowSize' = [width |-> 1280, height |-> 720]
    /\ offsetX' = 0 /\ offsetY' = 0
    /\ datasetIndex' = 3 /\ threshold' = "0.2" /\ magnetType' = "HUPC"
    /\ imageUrl' = <<>>
    /\ selecting' = FALSE /\ selectedGroup' = "A" /\ groupA' = <<>> /\ groupB' = <<>>
    /\ pendingImage' = <<>> /\ pendingData' = <<>>
    /\ plot' = <<>> /\ plotError' = FALSE
    /\ sliderValue' = 3 /\ contrastValue' = 1
    /\ UNCHANGED << resizeListeners, plotVersion, fetchErrorLogged >>

\* the view is torn down: the cleanup of the mount effect removes handleResize
\* from the window, the component's state and its container are discarded (a
\* later mount starts from the initial values) and the responses of the
\* requests in flight find no component to update
Unmount ==
    /\ mounted
    /\ mounted' = FALSE
    /\ resizeListeners' = resizeListeners - 1
    /\ hpMriData' = InitialData
    /\ showHpMriData' = FALSE /\ isHpMriDataOn' = FALSE
    /\ windowSize' = [width |-> 1280, height |-> 720]
    /\ offsetX' = 0 /\ offsetY' = 0
    /\ datasetIndex' = 3 /\ threshold' = "0.2" /\ magnetType' = "HUPC"
    /\ imageUrl' = <<>>
    /\ selecting' = FALSE /\ selectedGroup' = "A" /\ groupA' = <<>> /\ groupB' = <<>>
    /\ pendingImage' = <<>> /\ pendingData' = <<>>
    /\ plot' = <<>> /\ plotError' = FALSE
    /\ sliderValue' = 3 /\ contrastValue' = 1
    /\ UNCHANGED << plotVersion, fetchErrorLogged >>

\* the window fires a resize event with inner size ws: the listener runs if
\* one is registered
ResizeEvent(ws) ==
    IF resizeListeners > 0 THEN handleResize(ws) ELSE UNCHANGED vars

\* a session in which the view is mounted, torn down and mounted again while
\* the window is resized, the user pans and the fetches resolve or fail
NextLife ==
    \/ Mount
    \/ Unmount
    \/ \E ws \in WindowSizes : ResizeEvent(ws)
    \/ Responses
    \/ Pan

SpecLife == Init /\ [][NextLife]_vars

(***************************************************************************)
(* HomePage of versions 1.2.0 and 1.2.1.  Its state is held in the same    *)
(* variables: epsiValue in datasetIndex, epsiData in hpMriData, showEpsi   *)
(* in showHpMriData, isEpsiOn in isHpMriDataOn.                            *)
(***************************************************************************)
EpsiVersions == {"1.2.0", "1.2.1"}

InitEpsi == plotVersion \in EpsiVersions /\ InitHome

\* variant: the request carries the new value of the slider
handleEpsiChangeFresh(newEpsiValue) ==
    /\ mounted
    /\ newEpsiValue # datasetIndex
    /\ InFlight < MaxInFlight
    /\ datasetIndex' = newEpsiValue
    /\ pendingData' = Append(pendingData, DatasetRequest(newEpsiValue))
    /\ UNCHANGED << resizeListeners, plotVersion, sliderVars, fetchErrorLogged, mounted,
                    hpMriData, showHpMriData, windowSize, panVars, selectVars, threshold,
                    magnetType, imageUrl, pendingImage, isHpMriDataOn, plot, plotError >>

\* setEpsiValue(newEpsiValue); sendEpsiValueToBackend(epsiValue): epsiValue is
\* the value of the render in which the handler was created
handleEpsiChange(newEpsiValue) ==
    /\ mounted
    /\ newEpsiValue # datasetIndex
    /\ InFlight < MaxInFlight
    /\ datasetIndex' = newEpsiValue
    /\ pendingData' = Append(pendingData, DatasetRequest(datasetIndex))
    /\ UNCHANGED << resizeListeners, plotVersion, sliderVars, fetchErrorLogged, mounted,
                    hpMriData, showHpMriData, windowSize, panVars, selectVars, threshold,
                    magnetType, imageUrl, pendingImage, isHpMriDataOn, plot, plotError >>

\* ON/OFF radio of the ButtonPanel: setIsEpsiOn(newStatus === 'on') and
\* toggleEpsi(newStatus === 'on'), which sets showEpsi and refetches
handleToggleEpsi(newStatus) ==
    /\ mounted
    /\ (newStatus = "on") # isHpMriDataOn
    /\ InFlight < MaxInFlight
    /\ isHpMriDataOn' = (newStatus = "on")
    /\ showHpMriData' = (newStatus = "on")
    /\ pendingData' = Append(pendingData, DatasetRequest(datasetIndex))
    /\ Redraw(hpMriData, newStatus = "on", windowSize)
    /\ UNCHANGED << resizeListeners, plotVersion, sliderVars, fetchErrorLogged, mounted,
                    hpMriData, windowSize, panVars, selectVars, datasetIndex, threshold,
                    magnetType, imageUrl, pendingImage >>

\* a session of these versions in which the user moves the dataset slider,
\* toggles the plot data and pans while the responses arrive
NextEpsi ==
    \/ Mount
    \/ \E i \in 1..MaxInFlight : DatasetResponse(i)
    \/ \E i \in 1..MaxInFlight : ImageResponse(i)
    \/ \E newEpsiValue \in DatasetIndices : handleEpsiChange(newEpsiValue)
    \/ \E newStatus \in {"on", "off"} : handleToggleEpsi(newStatus)

SpecEpsi == InitEpsi /\ [][NextEpsi]_vars

\* datasets of 2 or 8 columns and 2 rows that differ in the lengths and in the plotShift
VoxelInputs ==
    {g \in GeometryInputs :
        /\ g.columns \in {2, 8} /\ g.rows = 2
        /\ g.spectralData # <<>>
        /\ g.perpendicularScale # 0 /\ g.plotShift[2] = 0}

\* pointer positions, relative to the container's top-left corner, accepted
\* in the 460 x 380 container and in the large one
VoxelOffsets == {<<10, 10>>, <<380, 300>>}

\* HomePage with selecting on, after a dataset has been received and
\* rendered, for any dataset of VoxelInputs, threshold, magnet, visibility
\* and either container
InitVoxel ==
    /\ plotVersion = "1.2.2"
    /\ mounted = TRUE /\ resizeListeners = 1
    /\ hpMriData \in VoxelInputs
    /\ showHpMriData \in BOOLEAN /\ isHpMriDataOn = showHpMriData
    /\ windowSize \in {[width |-> 1280, height |-> 720], LargeWindow}
    /\ offsetX = 0 /\ offsetY = 0
    /\ datasetIndex = 3
    /\ threshold \in ThresholdValues
    /\ magnetType \in MagnetTypes
    /\ imageUrl = <<>>
    /\ selecting = TRUE
    /\ selectedGroup = "A"
    /\ groupA = <<>> /\ groupB = <<>>
    /\ pendingImage = <<>> /\ pendingData = <<>>
    /\ plot = updatePlot(plotVersion, hpMriData, showHpMriData, ContainerOf(windowSize), <<>>)
    /\ plotError = FALSE
    /\ sliderValue = 3 /\ contrastValue = 1
    /\ fetchErrorLogged = FALSE

\* the user picks voxels and resets them
NextVoxel ==
    \/ \E p \in VoxelOffsets : handleVoxelSelect(PlotRect.left + p[1], PlotRect.top + p[2])
    \/ resetVoxels

SpecVoxel == InitVoxel /\ [][NextVoxel]_vars

(***************************************************************************)
(* Exact arithmetic on finite numbers, used to state rounding tolerances.  *)
(* A pair <<i, e>> stands for i * 2^e.                                     *)
(***************************************************************************)
Dy(a) == <<a.m, a.e>>

DySum(p, q) ==
    IF p[1] = 0 THEN q
    ELSE IF q[1] = 0 THEN p
    ELSE LET e == MinInt(p[2], q[2])
         IN  <<p[1] * Pow2(p[2] - e) + q[1] * Pow2(q[2] - e), e>>

DyNeg(p) == <<0 - p[1], p[2]>>

DyAbs(p) == <<Abs(p[1]), p[2]>>

DyLe(p, q) == DySum(p, DyNeg(q))[1] <= 0

DyMax(p, q) == IF DyLe(p, q) THEN q ELSE p

\* p * 2^(k - MantBits): k units of relative rounding error of a value of size p
Roundoff(k, p) == <<Abs(p[1]), p[2] + k - MantBits>>

(***************************************************************************)
(* Views of the last Plotly.react call and of the dataset.                 *)
(***************************************************************************)
Rendered == plot # <<>>

DomainX == plot[1].layout.xaxis.domain

DomainY == plot[1].layout.yaxis.domain

PlotData == plot[1].plotData

GridShapes == plot[1].layout.shapes

XAxisOK == hpMriData.columns > 0 /\ hpMriData.longitudinalScale > 0

YAxisOK == hpMriData.rows > 0 /\ hpMriData.perpendicularScale > 0

\* the spec's axis-generic formula
AxisLow(scale, measure, shift, count) ==
    NumDiv(NumAdd(NumDiv(NumSub(Num(scale), Num(measure)), Num(2)),
                  NumDiv(NumMul(Num(shift), Num(measure)), Num(count))),
           Num(scale))

AxisHigh(scale, measure, shift, count) ==
    NumAdd(AxisLow(scale, measure, shift, count), NumDiv(Num(measure), Num(scale)))

AxisX(d) == << AxisLow(d.longitudinalScale, d.longitudinalMeasurement, d.plotShift[1], d.columns),
               AxisHigh(d.longitudinalScale, d.longitudinalMeasurement, d.plotShift[1], d.columns) >>

AxisY(d) == << AxisLow(d.perpendicularScale, d.perpendicularMeasurement, d.plotShift[2], d.rows),
               AxisHigh(d.perpendicularScale, d.perpendicularMeasurement, d.plotShift[2], d.rows) >>

(***************************************************************************)
(* C1.  The width of each interval of the domain.                          *)
(***************************************************************************)
\* high - low = measure / scale, evaluated as the program's numbers evaluate it
WidthExact(dom, measure, scale) ==
    NumSub(dom[2], dom[1]) = NumDiv(Num(measure), Num(scale))

\* |(high - low) - measure/scale| <= 2^(-MantBits) * |high| in exact arithmetic:
\* high is low + measure/scale rounded once
WidthRounded(dom, measure, scale) ==
    DyLe(DyAbs(DySum(DySum(Dy(dom[2]), DyNeg(Dy(dom[1]))),
                     DyNeg(Dy(NumDiv(Num(measure), Num(scale)))))),
         Roundoff(0, Dy(dom[2])))

\* C1 as stated: for count > 0 and scale > 0 the width high - low of each
\* interval is exactly measure/scale, whatever the shift
C1_WidthExact ==
    Rendered =>
        /\ XAxisOK => WidthExact(DomainX, hpMriData.longitudinalMeasurement, hpMriData.longitudinalScale)
        /\ YAxisOK => WidthExact(DomainY, hpMriData.perpendicularMeasurement, hpMriData.perpendicularScale)

\* C1 amended: for count > 0 and scale > 0 the width high - low of each
\* interval equals measure/scale up to the rounding of the one addition that
\* computes high (at most 2^-MantBits * |high|), whatever the shift
C1_WidthUpToRounding ==
    Rendered =>
        /\ XAxisOK => WidthRounded(DomainX, hpMriData.longitudinalMeasurement, hpMriData.longitudinalScale)
        /\ YAxisOK => WidthRounded(DomainY, hpMriData.perpendicularMeasurement, hpMriData.perpendicularScale)

\* a shifted interval whose width is not exactly measure/scale has been rendered
C1_Witness ==
    /\ Rendered /\ XAxisOK /\ YAxisOK
    /\ hpMriData.plotShift[1] # 0
    /\ ~WidthExact(DomainX, hpMriData.longitudinalMeasurement, hpMriData.longitudinalScale)

(***************************************************************************)
(* C2.  The formula of the domain.                                         *)
(***************************************************************************)
\* |low + high - 1| <= 2^(2 - MantBits) in exact arithmetic
Centred(dom) ==
    DyLe(DyAbs(DySum(DySum(Dy(dom[1]), Dy(dom[2])), <<0 - 1, 0>>)), Roundoff(2, <<1, 0>>))

\* C2: per axis low = ((scale - measure)/2 + shift*measure/count) / scale and
\* high = low + measure/scale, x from the longitudinal fields, shiftX and
\* columns, y from the perpendicular fields, shiftY and rows;
\* calculateDomain(40,20,0,8,40,20,0,8) is {x:[0.25,0.75], y:[0.25,0.75]};
\* with shift 0 the interval is centred in [0,1] (to within rounding)
C2_DomainFormula ==
    Rendered =>
        /\ DomainX = AxisX(hpMriData)
        /\ DomainY = AxisY(hpMriData)
        /\ (/\ hpMriData.longitudinalScale = 40 /\ hpMriData.longitudinalMeasurement = 20
            /\ hpMriData.plotShift[1] = 0 /\ hpMriData.columns = 8)
                => DomainX = << Lit(1, 4), Lit(3, 4) >>
        /\ (/\ hpMriData.perpendicularScale = 40 /\ hpMriData.perpendicularMeasurement = 20
            /\ hpMriData.plotShift[2] = 0 /\ hpMriData.rows = 8)
                => DomainY = << Lit(1, 4), Lit(3, 4) >>
        /\ (XAxisOK /\ hpMriData.plotShift[1] = 0) => Centred(DomainX)
        /\ (YAxisOK /\ hpMriData.plotShift[2] = 0) => Centred(DomainY)

\* the scenario calculateDomain(40,20,0,8,40,20,0,8) has been rendered
C2_Witness ==
    /\ Rendered
    /\ DomainX = << Lit(1, 4), Lit(3, 4) >> /\ DomainY = << Lit(1, 4), Lit(3, 4) >>
    /\ hpMriData.columns = 8 /\ hpMriData.rows = 8
    /\ hpMriData.plotShift = <<0, 0>>

(***************************************************************************)
(* C3.  Division by zero.                                                  *)
(***************************************************************************)
NoNaN(a) == a.c # "nan"

\* C3: when columns, rows or a scale is 0 the domain computation fails fast or
\* yields the sentinel [0,1]x[0,1]; no NaN domain bound or grid coordinate is
\* ever passed to the render call
C3_NoNaNRendered ==
    Rendered =>
        /\ \A k \in 1..2 : NoNaN(DomainX[k]) /\ NoNaN(DomainY[k])
        /\ \A k \in 1..Len(GridShapes) :
              /\ NoNaN(GridShapes[k].x0) /\ NoNaN(GridShapes[k].x1)
              /\ NoNaN(GridShapes[k].y0) /\ NoNaN(GridShapes[k].y1)


(***************************************************************************)
(* C4.  Pan and the rendered domain.                                       *)
(***************************************************************************)
PanStep == offsetX' # offsetX \/ offsetY' # offsetY

\* C4 as stated: the rendered domain always equals calculateDomain applied to
\* the controller's current pan offset (a pan action re-invokes the Domain
\* Mapper with the updated offset and redraws)
C4_DomainFollowsPan ==
    (Rendered /\ ~plotError) =>
        /\ DomainX = << AxisLow(hpMriData.longitudinalScale, hpMriData.longitudinalMeasurement,
                                offsetX, hpMriData.columns),
                        AxisHigh(hpMriData.longitudinalScale, hpMriData.longitudinalMeasurement,
                                 offsetX, hpMriData.columns) >>
        /\ DomainY = << AxisLow(hpMriData.perpendicularScale, hpMriData.perpendicularMeasurement,
                                offsetY, hpMriData.rows),
                        AxisHigh(hpMriData.perpendicularScale, hpMriData.perpendicularMeasurement,
                                 offsetY, hpMriData.rows) >>

\* the rendered domain is the one of the dataset's own plotShift field
DomainOfDataset ==
    (Rendered /\ ~plotError) => (DomainX = AxisX(hpMriData) /\ DomainY = AxisY(hpMriData))

\* one more unit of shift with columns=8, measure=20, scale=40 moves low by 0.0625
UnitShiftScenario ==
    NumSub(calculateDomain(Num(40), Num(20), Num(1), Num(8), Num(40), Num(20), Num(0), Num(8)).x[1],
           calculateDomain(Num(40), Num(20), Num(0), Num(8), Num(40), Num(20), Num(0), Num(8)).x[1])
        = Lit(1, 16)

\* C4 amended: a pan action does not re-invoke the Domain Mapper and does not
\* redraw: it leaves the last render untouched (the pan offset only translates
\* the plot container); the rendered domain always equals calculateDomain
\* applied to the plotShift field of the current dataset, where one more unit
\* of shift with columns=8, measure=20, scale=40 raises domain.x low by 0.0625
C4_PanLeavesRender ==
    /\ [](DomainOfDataset /\ UnitShiftScenario)
    /\ [][PanStep => (plot' = plot /\ hpMriData' = hpMriData)]_vars

\* the loaded dataset 3 is rendered and the user has panned right once:
\* the rendered low bound is still 0.25
C4_Witness ==
    /\ Rendered /\ ~plotError
    /\ offsetX = 10
    /\ hpMriData.columns = 8 /\ hpMriData.longitudinalScale = 40
    /\ DomainX[1] = Lit(1, 4)

(***************************************************************************)
(* C5.  The effect and the frame of the pan actions.                       *)
(***************************************************************************)
PanFrameUnchanged ==
    UNCHANGED << plotVersion, mounted, hpMriData, showHpMriData, windowSize, datasetIndex,
                 threshold, magnetType, imageUrl, selecting, selectedGroup, groupA, groupB,
                 isHpMriDataOn, pendingImage, pendingData, plot, plotError,
                 sliderValue, contrastValue, fetchErrorLogged >>

\* C5: moveLeft is x-10, moveRight x+10, moveUp y-10, moveDown y+10, each
\* leaving the other coordinate; resetPlotShift sets (0,0); a step that
\* changes the pan offset changes nothing else and issues no request; both
\* coordinates are multiples of 10 in every reachable state
C5_PanStepAndFrame ==
    /\ [](offsetX % 10 = 0 /\ offsetY % 10 = 0)
    /\ [][/\ moveLeft => (offsetX' = offsetX - 10 /\ offsetY' = offsetY /\ PanFrameUnchanged)
          /\ moveRight => (offsetX' = offsetX + 10 /\ offsetY' = offsetY /\ PanFrameUnchanged)
          /\ moveUp => (offsetY' = offsetY - 10 /\ offsetX' = offsetX /\ PanFrameUnchanged)
          /\ moveDown => (offsetY' = offsetY + 10 /\ offsetX' = offsetX /\ PanFrameUnchanged)
          /\ resetPlotShift => (offsetX' = 0 /\ offsetY' = 0 /\ PanFrameUnchanged)
          /\ PanStep =>
                /\ PanFrameUnchanged
                /\ \/ (Abs(offsetX' - offsetX) = 10 /\ offsetY' = offsetY)
                   \/ (Abs(offsetY' - offsetY) = 10 /\ offsetX' = offsetX)
                   \/ (offsetX' = 0 /\ offsetY' = 0)]_vars

\* the user has panned left and down while a dataset request is in flight
C5_Witness ==
    /\ mounted
    /\ offsetX = 0 - 10 /\ offsetY = 10
    /\ Len(pendingData) > 0

(***************************************************************************)
(* C6.  The grid segments.                                                 *)
(***************************************************************************)
\* low + (i/count) * (high - low)
LinePos(low, high, i, count) ==
    NumAdd(low, NumMul(NumDiv(Num(i), Num(count)), NumSub(high, low)))

GridCase == Rendered /\ hpMriData.columns >= 1 /\ hpMriData.rows >= 1

\* (columns+1) + (rows+1) segments, the vertical ones first, at the positions
\* of the formula and spanning the other axis' interval
GridCountAndPositions ==
    /\ Len(GridShapes) = (hpMriData.columns + 1) + (hpMriData.rows + 1)
    /\ \A i \in 0..hpMriData.columns :
          /\ GridShapes[i + 1].x0 = LinePos(DomainX[1], DomainX[2], i, hpMriData.columns)
          /\ GridShapes[i + 1].x1 = GridShapes[i + 1].x0
          /\ GridShapes[i + 1].y0 = DomainY[1] /\ GridShapes[i + 1].y1 = DomainY[2]
    /\ \A j \in 0..hpMriData.rows :
          /\ GridShapes[hpMriData.columns + j + 2].y0
                = LinePos(DomainY[1], DomainY[2], j, hpMriData.rows)
          /\ GridShapes[hpMriData.columns + j + 2].y1 = GridShapes[hpMriData.columns + j + 2].y0
          /\ GridShapes[hpMriData.columns + j + 2].x0 = DomainX[1]
          /\ GridShapes[hpMriData.columns + j + 2].x1 = DomainX[2]

\* |a - b| <= 2^(2 - MantBits) * max(|low|, |high|) in exact arithmetic
NearBound(a, b, low, high) ==
    DyLe(DyAbs(DySum(Dy(a), DyNeg(Dy(b)))),
         Roundoff(2, DyMax(DyAbs(Dy(low)), DyAbs(Dy(high)))))

\* C6 as stated: for columns >= 1 and rows >= 1 there are (columns+1)+(rows+1)
\* segments at low + (i/count)*(high - low), and the segments of index 0 and
\* of index count lie exactly on low and on high
C6_GridExactBoundary ==
    GridCase =>
        /\ GridCountAndPositions
        /\ XAxisOK => /\ GridShapes[1].x0 = DomainX[1]
                      /\ GridShapes[hpMriData.columns + 1].x0 = DomainX[2]
        /\ YAxisOK => /\ GridShapes[hpMriData.columns + 2].y0 = DomainY[1]
                      /\ GridShapes[hpMriData.columns + hpMriData.rows + 2].y0 = DomainY[2]

\* C6 amended: for columns >= 1 and rows >= 1 there are (columns+1)+(rows+1)
\* segments at low + (i/count)*(high - low) as the program's numbers evaluate
\* it; for a finite domain (scale > 0) the segment of index 0 lies exactly on
\* low, and the segment of index count lies on high up to the rounding of
\* high - low and of the sum: within 2^(2 - MantBits) * max(|low|, |high|)
C6_GridUpToRounding ==
    GridCase =>
        /\ GridCountAndPositions
        /\ XAxisOK => /\ GridShapes[1].x0 = DomainX[1]
                      /\ NearBound(GridShapes[hpMriData.columns + 1].x0, DomainX[2],
                                   DomainX[1], DomainX[2])
        /\ YAxisOK => /\ GridShapes[hpMriData.columns + 2].y0 = DomainY[1]
                      /\ NearBound(GridShapes[hpMriData.columns + hpMriData.rows + 2].y0,
                                   DomainY[2], DomainY[1], DomainY[2])

\* a grid whose last vertical segment is not exactly on high has been rendered
C6_Witness ==
    /\ GridCase /\ XAxisOK /\ YAxisOK
    /\ Len(GridShapes) = (hpMriData.columns + 1) + (hpMriData.rows + 1)
    /\ GridShapes[1].x0 = DomainX[1]
    /\ GridShapes[hpMriData.columns + 1].x0 # DomainX[2]

(***************************************************************************)
(* C7, C8.  The trace filter.                                              *)
(***************************************************************************)
\* <<lower, upper>> of each version, as the claims give them
FilterBounds(ver) ==
    IF ver = "1.1.0" THEN << Lit(1, 10), Lit(99, 10) >> ELSE << Lit(1, 100), Lit(999, 100) >>

Magnitude(a) == IF NumLt(a, Zero) THEN NumNeg(a) ELSE a

Trace == PlotData[Len(PlotData)]

TraceCase == Rendered /\ showHpMriData

\* the trace is a scatter over the untouched xValues, as long as the data, with
\* gaps not bridged
TraceShape ==
    /\ Trace.type = "scatter"
    /\ Trace.x = hpMriData.xValues
    /\ Len(Trace.y) = Len(hpMriData.data)
    /\ Trace.connectgaps = FALSE

\* C7 as stated: a sample whose magnitude is below the lower epsilon or above
\* the upper epsilon becomes null, every other sample is unchanged at its
\* index; same length, xValues untouched, connectgaps false
C7_MagnitudeFilter ==
    TraceCase =>
        /\ TraceShape
        /\ \A k \in 1..Len(hpMriData.data) :
              Trace.y[k] =
                IF \/ NumLt(Magnitude(hpMriData.data[k]), FilterBounds(plotVersion)[1])
                   \/ NumGt(Magnitude(hpMriData.data[k]), FilterBounds(plotVersion)[2])
                THEN Null ELSE hpMriData.data[k]

\* C7 amended: a sample whose signed value is below the lower epsilon or above
\* the upper epsilon (so every negative sample, whatever its magnitude)
\* becomes null, every other sample is unchanged at its index; same length,
\* xValues untouched, connectgaps false
C7_SignedFilter ==
    TraceCase =>
        /\ TraceShape
        /\ \A k \in 1..Len(hpMriData.data) :
              Trace.y[k] =
                IF \/ NumLt(hpMriData.data[k], FilterBounds(plotVersion)[1])
                   \/ NumGt(hpMriData.data[k], FilterBounds(plotVersion)[2])
                THEN Null ELSE hpMriData.data[k]

\* a trace with a negative sample of magnitude 5 (nulled) and the sample 5 (kept)
C7_Witness ==
    /\ TraceCase
    /\ hpMriData.data = << NumNeg(Num(5)), Num(5) >>
    /\ Trace.y = << Null, Num(5) >>

\* C8: in every version a sample equal to the version's lower bound or to its
\* upper bound is kept; exactly the samples with value < lower or
\* value > upper are gaps; the bounds are [0.1, 9.9] in 1.1.0 and
\* [0.01, 9.99] in 1.2.1 and 1.2.2
C8_BoundsInclusive ==
    TraceCase =>
        \A k \in 1..Len(hpMriData.data) :
            /\ hpMriData.data[k] \in {FilterBounds(plotVersion)[1], FilterBounds(plotVersion)[2]}
                  => Trace.y[k] = hpMriData.data[k]
            /\ Trace.y[k] = Null
                  <=> \/ NumLt(hpMriData.data[k], FilterBounds(plotVersion)[1])
                      \/ NumGt(hpMriData.data[k], FilterBounds(plotVersion)[2])

\* version 1.1.0 has drawn a trace of its two bounds, both kept
C8_Witness ==
    /\ TraceCase
    /\ plotVersion = "1.1.0"
    /\ hpMriData.data = << Lit(1, 10), Lit(99, 10) >>
    /\ Trace.y = hpMriData.data

(***************************************************************************)
(* C9.  The visibility flag.                                               *)
(***************************************************************************)
\* C9: with the flag off the plot data are exactly the grid segments; with it
\* on they are the same segments followed by exactly one trace; a toggle of
\* the flag leaves the grid segments as they were
C9_TraceOnlyWhenVisible ==
    /\ [](Rendered =>
            /\ \A k \in 1..Len(GridShapes) : GridShapes[k].type = "line"
            /\ IF showHpMriData
               THEN /\ Len(PlotData) = Len(GridShapes) + 1
                    /\ SubSeq(PlotData, 1, Len(GridShapes)) = GridShapes
                    /\ PlotData[Len(PlotData)].type = "scatter"
               ELSE PlotData = GridShapes)
    /\ [][(showHpMriData' # showHpMriData /\ plot # <<>> /\ plot' # <<>>)
            => plot'[1].layout.shapes = plot[1].layout.shapes]_vars

\* the flag is on and the render holds the grid and one trace
C9_Witness ==
    /\ Rendered /\ showHpMriData
    /\ Len(GridShapes) = (hpMriData.columns + 1) + (hpMriData.rows + 1)
    /\ Len(PlotData) = Len(GridShapes) + 1
    /\ PlotData[Len(PlotData)].type = "scatter"

(***************************************************************************)
(* C10.  The rectangle of accepted clicks.                                 *)
(***************************************************************************)
\* the offset-corrected position of a click lies in
\* [0, rect.width + 263 - 450] x [0, rect.height + 98 - 370], bounds included
InsideRectangle(clientX, clientY) ==
    /\ 0 <= clientX - PlotRect.left + 263
    /\ clientX - PlotRect.left + 263 <= PlotRect.width + 263 - 450
    /\ 0 <= clientY - PlotRect.top + 98
    /\ clientY - PlotRect.top + 98 <= PlotRect.height + 98 - 370

OneVoxelMore == Len(groupA') + Len(groupB') = Len(groupA) + Len(groupB) + 1

\* C10: of the clicks that reach the picker (selecting on), the handler
\* accepts exactly those whose offset-corrected position lies in the rectangle,
\* bounds included; a click outside it changes no state and a click inside it
\* stores exactly one voxel
C10_RectangleDecides ==
    /\ [](\A p \in ClickOffsets :
            ClickAccepted(PlotRect.left + p[1], PlotRect.top + p[2], PlotRect)
                <=> InsideRectangle(PlotRect.left + p[1], PlotRect.top + p[2]))
    /\ [][\A p \in ClickOffsets :
            (selecting /\ handleVoxelSelect(PlotRect.left + p[1], PlotRect.top + p[2]))
                => IF InsideRectangle(PlotRect.left + p[1], PlotRect.top + p[2])
                   THEN OneVoxelMore
                   ELSE UNCHANGED vars]_vars

\* clicks on both corners of the rectangle of the large container have each
\* stored one voxel, with the plot panned
C10_Witness ==
    /\ selecting /\ offsetX = 10
    /\ Len(groupA) = 2
    /\ groupA[1].x = 0 /\ groupA[1].y = 0
    /\ groupA[2].x = 273 /\ groupA[2].y = 108

(***************************************************************************)
(* C11.  The recorded voxel.                                               *)
(***************************************************************************)
\* floor(pos * ((count / size) * scaleOffset)), with 1.335 and 1.875 as given
GridIndex(pos, count, size, scaleNum) ==
    NumFloor(NumMul(Num(pos), NumMul(NumDiv(Num(count), Num(size)), Lit(scaleNum, 1000))))

\* the voxel of the claim for a click, from the dataset and rectangle of the
\* state in which the click is made
ExpectedVoxel(clientX, clientY) ==
    [x |-> clientX - PlotRect.left + 263,
     y |-> clientY - PlotRect.top + 98,
     column |-> GridIndex(clientX - PlotRect.left + 263, hpMriData.columns, PlotRect.width, 1335),
     row |-> GridIndex(clientY - PlotRect.top + 98, hpMriData.rows, PlotRect.height, 1875)]

\* the group that is active after the step
ActiveGroupAfter == IF selectedGroup = "A" THEN groupA' ELSE groupB'

\* C11: the voxel recorded by an accepted click has x = clickX - rect.left -
\* offsetSelectX, y = clickY - rect.top - offsetSelectY, column = floor(x *
\* (columns / rect.width) * scaleOffsetX) and row = floor(y * (rows /
\* rect.height) * scaleOffsetY), columns and rows being those of the dataset
\* held when the click is made
C11_VoxelFormula ==
    [][\A p \in ClickOffsets :
        (/\ selecting
         /\ InsideRectangle(PlotRect.left + p[1], PlotRect.top + p[2])
         /\ handleVoxelSelect(PlotRect.left + p[1], PlotRect.top + p[2]))
            => /\ Len(ActiveGroupAfter) > 0
               /\ ActiveGroupAfter[Len(ActiveGroupAfter)]
                    = ExpectedVoxel(PlotRect.left + p[1], PlotRect.top + p[2])]_vars

\* a click on the far corner of the rectangle, made before the dataset arrived,
\* is stored with column 0 and row 0; the same click on the loaded 8 x 2
\* dataset is stored with column 6 and row 1
C11_Witness ==
    /\ hpMriData.columns = 8 /\ hpMriData.rows = 2
    /\ Len(groupA) = 2
    /\ groupA[1] = [x |-> 273, y |-> 108, column |-> 0, row |-> 0]
    /\ groupA[2] = [x |-> 273, y |-> 108, column |-> 6, row |-> 1]

(***************************************************************************)
(* C12.  The effect of an accepted click on the groups.                    *)
(***************************************************************************)
\* seq2 is seq1 with one element put at its end
OneAppended(seq1, seq2) ==
    /\ Len(seq2) = Len(seq1) + 1
    /\ SubSeq(seq2, 1, Len(seq1)) = seq1

\* C12: an accepted click puts exactly one voxel at the end of the active
\* group and leaves the other group as it was, whether or not an equal voxel
\* is already stored, so that each group lists its voxels in click order
C12_AppendToActiveGroup ==
    [][\A p \in ClickOffsets :
        (/\ selecting
         /\ InsideRectangle(PlotRect.left + p[1], PlotRect.top + p[2])
         /\ handleVoxelSelect(PlotRect.left + p[1], PlotRect.top + p[2]))
            => /\ selectedGroup' = selectedGroup
               /\ IF selectedGroup = "A"
                  THEN /\ OneAppended(groupA, groupA')
                       /\ groupA'[Len(groupA')]
                            = ExpectedVoxel(PlotRect.left + p[1], PlotRect.top + p[2])
                       /\ groupB' = groupB
                  ELSE /\ OneAppended(groupB, groupB')
                       /\ groupB'[Len(groupB')]
                            = ExpectedVoxel(PlotRect.left + p[1], PlotRect.top + p[2])
                       /\ groupA' = groupA]_vars

\* two identical clicks have left two equal entries in group B
C12_Witness ==
    /\ groupA = <<>>
    /\ Len(groupB) = 2
    /\ groupB[1] = groupB[2]
    /\ groupB[1].x = 273

(***************************************************************************)
(* C13.  The selecting flag.                                               *)
(***************************************************************************)
\* C13: while selecting is off a click leaves both groups (and everything
\* else) unchanged: the only step that changes a group then is the reset,
\* which empties both; a step that changes the flag flips it and changes
\* nothing else, the groups included
C13_SelectingGates ==
    [][/\ \A p \in ClickOffsets :
            (~selecting /\ handleVoxelSelect(PlotRect.left + p[1], PlotRect.top + p[2]))
                => UNCHANGED vars
       /\ (~selecting /\ << groupA, groupB >>' # << groupA, groupB >>)
            => (groupA' = <<>> /\ groupB' = <<>>)
       /\ (toggleSelecting \/ selecting' # selecting)
            => /\ selecting' = ~selecting
               /\ UNCHANGED << plotVersion, mounted, hpMriData, showHpMriData, windowSize,
                               offsetX, offsetY, datasetIndex, threshold, magnetType, imageUrl,
                               selectedGroup, groupA, groupB, isHpMriDataOn, pendingImage,
                               pendingData, plot, plotError, sliderValue, contrastValue,
                               fetchErrorLogged >>]_vars

\* selecting has been turned off with one voxel stored in each group
C13_Witness ==
    /\ mounted /\ ~selecting
    /\ Len(groupA) = 1 /\ Len(groupB) = 1

(***************************************************************************)
(* C14.  Slice and contrast changes.                                       *)
(***************************************************************************)
\* the step issues exactly one proton-image request, for the given slice and
\* contrast, and no dataset request
OneImageRequest(slice, contrast) ==
    /\ OneAppended(pendingImage, pendingImage')
    /\ pendingImage'[Len(pendingImage')].slice = slice
    /\ pendingImage'[Len(pendingImage')].contrast = contrast
    /\ pendingData' = pendingData

\* C14: a step that changes the slice issues exactly one proton-image request
\* with the new slice and the current contrast; a step that changes the
\* contrast issues exactly one with the current slice and the new contrast;
\* neither issues a dataset request
C14_ImageRefetch ==
    [][/\ sliderValue' # sliderValue
            => (contrastValue' = contrastValue /\ OneImageRequest(sliderValue', contrastValue))
       /\ contrastValue' # contrastValue
            => (sliderValue' = sliderValue /\ OneImageRequest(sliderValue, contrastValue'))]_vars

\* the slice and then the contrast have been changed; the request of the
\* contrast change, with slice 4 and contrast 2, is the last one in flight
C14_Witness ==
    /\ sliderValue = 4 /\ contrastValue = 2
    /\ Len(pendingImage) = 2
    /\ pendingImage[1].slice = 4 /\ pendingImage[1].contrast = 1
    /\ pendingImage[2].slice = 4 /\ pendingImage[2].contrast = 2

(***************************************************************************)
(* C15.  Dataset index changes and visibility toggles.                     *)
(***************************************************************************)
\* the step issues exactly one dataset request, for the given index and the
\* controller's current threshold and magnet type
OneDatasetRequest(index) ==
    /\ OneAppended(pendingData, pendingData')
    /\ pendingData'[Len(pendingData')].index = index
    /\ pendingData'[Len(pendingData')].threshold = threshold
    /\ pendingData'[Len(pendingData')].magnetType = magnetType

\* C15: a step that changes the dataset index issues exactly one dataset
\* request with the new index; a step that toggles the visibility flag issues
\* exactly one with the current index; both carry the current threshold and
\* magnetType
C15_DatasetRefetch ==
    [][/\ datasetIndex' # datasetIndex => OneDatasetRequest(datasetIndex')
       /\ showHpMriData' # showHpMriData
            => (datasetIndex' = datasetIndex /\ OneDatasetRequest(datasetIndex))]_vars

\* with threshold 0.5 and the Clinical magnet chosen, the index has been moved
\* to 4 and the data switched on: the request in flight is for index 4 with
\* that threshold and magnet
C15_Witness ==
    /\ datasetIndex = 4 /\ threshold = "0.5" /\ magnetType = "Clinical"
    /\ showHpMriData
    /\ pendingData = << [index |-> 4, threshold |-> "0.5", magnetType |-> "Clinical"] >>

(***************************************************************************)
(* C16.  Threshold and magnet type changes.                                *)
(***************************************************************************)
\* C16: a step that changes the threshold or the magnetType issues a dataset
\* request that carries the new threshold and magnetType (so that the
\* response brings the dataset computed for them)
C16_ThresholdRefetch ==
    [][(threshold' # threshold \/ magnetType' # magnetType)
        => /\ OneAppended(pendingData, pendingData')
           /\ pendingData'[Len(pendingData')].threshold = threshold'
           /\ pendingData'[Len(pendingData')].magnetType = magnetType']_vars

(***************************************************************************)
(* C17.  Responses that arrive out of order.                               *)
(***************************************************************************)
\* the queue after the step is the queue before it without its i-th request
Resolved(before, after, i) ==
    /\ i \in 1..Len(before)
    /\ Len(after) = Len(before) - 1
    /\ \A k \in 1..Len(after) : after[k] = IF k < i THEN before[k] ELSE before[k + 1]

\* C17: the response of any request in flight, whatever its place in the order
\* of issue, is applied when it arrives: it replaces the dataset (the image)
\* by the one served for that request, and the other requests stay in flight
\* in their order; so the data left when all requests have resolved are those
\* of the response that arrived last
C17_LastResponseWins ==
    [][/\ \A i \in 1..MaxInFlight :
            /\ DatasetResponse(i)
                  => (hpMriData' = Backend(pendingData[i]) /\ Resolved(pendingData, pendingData', i))
            /\ ImageResponse(i)
                  => (imageUrl' = << pendingImage[i] >> /\ Resolved(pendingImage, pendingImage', i))
       /\ hpMriData' # hpMriData
            => \E i \in 1..Len(pendingData) :
                  hpMriData' = Backend(pendingData[i]) /\ Resolved(pendingData, pendingData', i)
       /\ imageUrl' # imageUrl
            => \E i \in 1..Len(pendingImage) :
                  imageUrl' = << pendingImage[i] >> /\ Resolved(pendingImage, pendingImage', i)]_vars

\* no fetch has failed and none is in flight; the last dataset request issued
\* was for index 4 and the last image request for slice 4, but the dataset
\* shown is the one of index 3 and the image the one of slice 3: the responses
\* of the first requests arrived last
C17_Witness ==
    /\ ~fetchErrorLogged
    /\ pendingData = <<>> /\ pendingImage = <<>>
    /\ datasetIndex = 4 /\ hpMriData.columns = 8
    /\ sliderValue = 4 /\ contrastValue = 1 /\ imageUrl # <<>> /\ imageUrl[1].slice = 3

(***************************************************************************)
(* C18.  Failed fetches.                                                   *)
(***************************************************************************)
\* everything but the two queues and the log of fetch errors
FailureFrame ==
    UNCHANGED << plotVersion, mounted, hpMriData, showHpMriData, windowSize, offsetX, offsetY,
                 datasetIndex, threshold, magnetType, imageUrl, selecting, selectedGroup,
                 groupA, groupB, isHpMriDataOn, plot, plotError, sliderValue, contrastValue >>

\* C18: a failed fetch is only logged: the request leaves its queue, no request
\* is issued in its place, and the dataset, the image URL and every other
\* field of the controller keep their values
C18_FailureOnlyLogged ==
    [][/\ \A i \in 1..MaxInFlight :
            /\ DatasetFailure(i)
                  => /\ fetchErrorLogged' /\ FailureFrame
                     /\ Resolved(pendingData, pendingData', i) /\ pendingImage' = pendingImage
            /\ ImageFailure(i)
                  => /\ fetchErrorLogged' /\ FailureFrame
                     /\ Resolved(pendingImage, pendingImage', i) /\ pendingData' = pendingData
       /\ fetchErrorLogged' # fetchErrorLogged
            => /\ fetchErrorLogged' /\ FailureFrame
               /\ Len(pendingData') + Len(pendingImage') = Len(pendingData) + Len(pendingImage) - 1]_vars

\* the requests for dataset 4 and slice 4 are gone, a failure has been logged,
\* and the dataset of index 3 and the image of slice 3 are still shown
C18_Witness ==
    /\ fetchErrorLogged
    /\ pendingData = <<>> /\ pendingImage = <<>>
    /\ datasetIndex = 4 /\ hpMriData = Backend([index |-> 3, threshold |-> "0.2", magnetType |-> "HUPC"])
    /\ sliderValue = 4 /\ imageUrl = << [slice |-> 3, contrast |-> 1, magnetType |-> "HUPC"] >>
    /\ Rendered

(***************************************************************************)
(* C19.  Malformed spectralData.                                           *)
(***************************************************************************)
\* spectralData has no first row, or its first row has no first column
Malformed(spectralData) ==
    IF Len(spectralData) = 0 THEN TRUE ELSE Len(spectralData[1]) = 0

\* C19: an update made with a malformed spectralData makes no render call (the
\* previous render, if any, stays) and ends with the error caught and logged;
\* an update with a well-formed one renders and logs nothing
C19_MalformedSkipsRender ==
    /\ [](mounted => (plotError <=> Malformed(hpMriData.spectralData)))
    /\ [][IF Malformed(hpMriData'.spectralData)
          THEN plot' = plot /\ plotError'
          ELSE /\ plot' # <<>> /\ ~plotError'
               /\ plot'[1].layout.xaxis.range
                    = <<0, hpMriData'.columns * Len(hpMriData'.spectralData[1][1])>>]_vars

\* an update with a malformed spectralData has been skipped and logged, and
\* the render made before it is still there
C19_Witness ==
    /\ mounted /\ plotError
    /\ hpMriData.spectralData = << <<>> >>
    /\ Rendered
    /\ Len(GridShapes) = (hpMriData.columns + 1) + (hpMriData.rows + 1)

(***************************************************************************)
(* C20.  What changes the selection groups.                                *)
(***************************************************************************)
\* everything but the two groups
BesidesGroups ==
    << plotVersion, sliderVars, fetchErrorLogged, mounted, hpMriData, showHpMriData,
       windowSize, panVars, selecting, selectedGroup, fetchVars, isHpMriDataOn, plot,
       plotError >>

\* C20: a step that changes a selection group is either a click made while
\* selecting, which appends one voxel to the active group, or a reset, which
\* empties both groups, and changes nothing else; so a step that changes the
\* dataset, the threshold, the magnet, the dataset index, the pan offset, the
\* visibility or the selecting mode leaves every stored voxel as it was
C20_GroupsChangeByClickOrReset ==
    [][<< groupA, groupB >>' # << groupA, groupB >>
          => /\ UNCHANGED BesidesGroups
             /\ \/ /\ selecting /\ selectedGroup = "A"
                   /\ OneAppended(groupA, groupA') /\ groupB' = groupB
                \/ /\ selecting /\ selectedGroup = "B"
                   /\ OneAppended(groupB, groupB') /\ groupA' = groupA
                \/ groupA' = <<>> /\ groupB' = <<>>]_vars

\* a voxel recorded on the first dataset (8 columns) is still stored, in a
\* column the dataset now displayed (2 columns) does not have, after the
\* dataset, the threshold, the magnet, the pan offset and the visibility have
\* changed and selecting has been turned off
C20_Witness ==
    /\ mounted /\ ~selecting
    /\ hpMriData = Backend([index |-> 4, threshold |-> "0.5", magnetType |-> "Clinical"])
    /\ offsetX = 10 /\ showHpMriData
    /\ Len(groupA) = 1 /\ Len(groupB) = 1
    /\ groupA[1].x = 273 /\ groupA[1].y = 108
    /\ groupA[1].column = GridIndex(273, 8, PlotRect.width, 1335)
    /\ groupA[1].column >= hpMriData.columns

(***************************************************************************)
(* C21.  The picker against the rendered grid.                             *)
(***************************************************************************)
DyLt(p, q) == ~DyLe(q, p)

\* the grid of the last render is that of the dataset and container held now
GridCurrent ==
    /\ Rendered /\ ~plotError
    /\ plot[1].layout.width = PlotRect.width /\ plot[1].layout.height = PlotRect.height
    /\ Len(GridShapes) = (hpMriData.columns + 1) + (hpMriData.rows + 1)
    /\ \A k \in 1..Len(GridShapes) : IsFin(GridShapes[k].x0) /\ IsFin(GridShapes[k].y0)

\* pixels from the container's left edge to a paper abscissa: the plot area
\* is the container less the margins of the layout
PaperToPixelX(xp) ==
    DySum(<<plot[1].layout.margin.l, 0>>,
          <<(plot[1].layout.width - plot[1].layout.margin.l - plot[1].layout.margin.r) * xp.m,
            xp.e>>)

\* pixels from the container's top edge to a paper ordinate (paper ordinates grow upwards)
PaperToPixelY(yp) ==
    DySum(<<plot[1].layout.height - plot[1].layout.margin.b, 0>>,
          <<0 - (plot[1].layout.height - plot[1].layout.margin.t - plot[1].layout.margin.b) * yp.m,
            yp.e>>)

\* the point (px, py) of the container lies strictly inside the rendered cell
\* of column c (from the left) and row r (from the top)
StrictlyInsideCell(px, py, r, c) ==
    /\ DyLt(PaperToPixelX(GridShapes[c + 1].x0), <<px, 0>>)
    /\ DyLt(<<px, 0>>, PaperToPixelX(GridShapes[c + 2].x0))
    /\ DyLt(PaperToPixelY(GridShapes[hpMriData.columns + 1 + hpMriData.rows - r + 1].y0),
            <<py, 0>>)
    /\ DyLt(<<py, 0>>,
            PaperToPixelY(GridShapes[hpMriData.columns + 1 + hpMriData.rows - r].y0))

LastOf(seq) == seq[Len(seq)]

\* C21: an accepted click strictly inside the rendered cell (row r, column c)
\* records a voxel with row r and column c
C21_PickerInvertsGrid ==
    [][\A p \in PickOffsets : \A c \in 0..(hpMriData.columns - 1) :
        \A r \in 0..(hpMriData.rows - 1) :
          (/\ selecting /\ GridCurrent
           /\ ClickAccepted(PlotRect.left + p[1], PlotRect.top + p[2], PlotRect)
           /\ StrictlyInsideCell(p[1], p[2], r, c)
           /\ handleVoxelSelect(PlotRect.left + p[1], PlotRect.top + p[2]))
              => /\ LastOf(ActiveGroupAfter).column = c
                 /\ LastOf(ActiveGroupAfter).row = r]_vars

(***************************************************************************)
(* C22.  Indices outside the grid.                                         *)
(***************************************************************************)
\* the indices of the claim's voxel for the click fall outside the grid of the dataset
OutOfGrid(clientX, clientY) ==
    \/ ExpectedVoxel(clientX, clientY).column >= hpMriData.columns
    \/ ExpectedVoxel(clientX, clientY).row >= hpMriData.rows

\* C22: an accepted click whose column is >= columns or whose row is >= rows
\* is stored like any other: the voxel, with these indices, is appended to
\* the active group and the other group is unchanged
C22_OutOfGridStored ==
    [][\A p \in PickOffsets :
        (/\ selecting
         /\ InsideRectangle(PlotRect.left + p[1], PlotRect.top + p[2])
         /\ OutOfGrid(PlotRect.left + p[1], PlotRect.top + p[2])
         /\ handleVoxelSelect(PlotRect.left + p[1], PlotRect.top + p[2]))
            => /\ OneVoxelMore
               /\ LastOf(ActiveGroupAfter)
                    = ExpectedVoxel(PlotRect.left + p[1], PlotRect.top + p[2])
               /\ IF selectedGroup = "A"
                  THEN OneAppended(groupA, groupA') /\ groupB' = groupB
                  ELSE OneAppended(groupB, groupB') /\ groupA' = groupA]_vars

\* the click on the far corner of the rectangle of the large container
\* (x = 1280 + 263 - 450, y = 720 + 98 - 370) is stored with column 9 of 8
\* and row 2 of 2
C22_Witness ==
    /\ mounted /\ PlotRect.width = 1280 /\ PlotRect.height = 720
    /\ hpMriData.columns = 8 /\ hpMriData.rows = 2
    /\ Len(groupA) >= 1
    /\ LastOf(groupA) = [x |-> 1093, y |-> 448, column |-> 9, row |-> 2]

(***************************************************************************)
(* C23.  What a successful response changes.                               *)
(***************************************************************************)
\* the controller's state other than the dataset, the image URL and the queues
ResponseFrame ==
    UNCHANGED << plotVersion, mounted, showHpMriData, isHpMriDataOn, windowSize, offsetX,
                 offsetY, datasetIndex, threshold, magnetType, selecting, selectedGroup,
                 groupA, groupB, sliderValue, contrastValue, fetchErrorLogged >>

\* C23: a dataset response makes the dataset equal to the response, every
\* field included, and leaves the image URL, the pan offset, the threshold,
\* the magnet, the dataset index, the visibility, the selecting flag and both
\* groups as they were; an image response changes the image URL and nothing
\* else, the dataset and the render included
C23_ResponseReplacesOnly ==
    [][\A i \in 1..MaxInFlight :
        /\ DatasetResponse(i)
              => /\ hpMriData' = Backend(pendingData[i])
                 /\ \A f \in DOMAIN hpMriData' : hpMriData'[f] = Backend(pendingData[i])[f]
                 /\ DOMAIN hpMriData' = DOMAIN Backend(pendingData[i])
                 /\ imageUrl' = imageUrl /\ pendingImage' = pendingImage
                 /\ ResponseFrame
        /\ ImageResponse(i)
              => /\ imageUrl' = << pendingImage[i] >>
                 /\ hpMriData' = hpMriData /\ pendingData' = pendingData
                 /\ plot' = plot /\ plotError' = plotError
                 /\ ResponseFrame]_vars

\* no fetch has failed and none is in flight: the dataset of the mount
\* (index 3, plotShift [0, 0]) has been replaced by the one of index 4, of
\* which every field is held, and the image of the mount by that of slice 4
C23_Witness ==
    /\ ~fetchErrorLogged /\ pendingData = <<>> /\ pendingImage = <<>>
    /\ datasetIndex = 4 /\ sliderValue = 4
    /\ hpMriData = Backend([index |-> 4, threshold |-> "0.2", magnetType |-> "HUPC"])
    /\ hpMriData.plotShift = <<0 - 1, 1>> /\ hpMriData.columns = 2
    /\ imageUrl = << [slice |-> 4, contrast |-> 1, magnetType |-> "HUPC"] >>

(***************************************************************************)
(* C24.  The render follows its inputs.                                    *)
(***************************************************************************)
\* C24: once the component has mounted, the last render is the one computed
\* from the current dataset, spectralData included, the current visibility
\* flag and the current container size, whenever these are well formed
C24_RenderFollowsInputs ==
    (mounted /\ ~Malformed(hpMriData.spectralData))
        => plot = updatePlot(plotVersion, hpMriData, showHpMriData, ContainerOf(windowSize), <<>>)

(***************************************************************************)
(* C25.  The resize listener.                                              *)
(***************************************************************************)
\* C25: exactly one listener is registered while the view is mounted and
\* none otherwise; the count changes only when the view mounts (one more) or
\* is torn down (one less); a resize event sets windowSize to the window's
\* size while the view is mounted and changes nothing after the teardown
C25_ListenerScoped ==
    /\ [](resizeListeners = IF mounted THEN 1 ELSE 0)
    /\ [][/\ resizeListeners' # resizeListeners
                => /\ mounted' # mounted
                   /\ resizeListeners' = IF mounted' THEN resizeListeners + 1
                                         ELSE resizeListeners - 1
          /\ \A ws \in WindowSizes :
                ResizeEvent(ws) => IF mounted THEN windowSize' = ws ELSE UNCHANGED vars
          /\ ~mounted /\ ~mounted' => UNCHANGED vars]_vars

\* a fetch of an earlier mount has failed, and both requests of a mount are
\* in flight: the view has been torn down and mounted again; one listener is
\* registered and a resize event has set windowSize
C25_Witness ==
    /\ mounted /\ fetchErrorLogged
    /\ Len(pendingData) = 1 /\ Len(pendingImage) = 1
    /\ resizeListeners = 1
    /\ windowSize = [width |-> 800, height |-> 600]

(***************************************************************************)
(* C26.  The axis ranges.                                                  *)
(***************************************************************************)
\* the ranges of the claim for a dataset
RangesOf(d) ==
    << <<0, d.columns * Len(d.spectralData[1][1])>>, <<0, d.rows>> >>

RenderedRanges == << plot[1].layout.xaxis.range, plot[1].layout.yaxis.range >>

\* C26: the ranges of the render are [0, columns * length of
\* spectralData[0][0]] and [0, rows] of the dataset rendered, whatever the
\* pan offset, the plotShift, the visibility and the container size: a step
\* that changes only these leaves the ranges as they were
C26_RangesFromDataset ==
    /\ [](Rendered => RenderedRanges = RangesOf(hpMriData))
    /\ [][(Rendered /\ hpMriData' = hpMriData) => (Rendered' /\ RenderedRanges' = RenderedRanges)]_vars

\* the dataset with plotShift [-1, 1], 2 columns, 2 rows and samples of
\* length 2 is rendered, visible, in the small container and panned: the
\* ranges are [0, 4] and [0, 2]
C26_Witness ==
    /\ Rendered /\ showHpMriData /\ offsetX = 10 /\ offsetY = 0 - 10
    /\ windowSize = [width |-> 800, height |-> 600]
    /\ plot[1].layout.width = 100
    /\ hpMriData.plotShift = <<0 - 1, 1>> /\ hpMriData.columns = 2
    /\ Len(hpMriData.spectralData[1][1]) = 2
    /\ RenderedRanges = << <<0, 4>>, <<0, 2>> >>

C28_IndicatorMatchesFlag == isHpMriDataOn = showHpMriData

\* ON has been chosen: the indicator and the flag are both true and the
\* trace is drawn
C28_Witness ==
    /\ mounted /\ isHpMriDataOn /\ showHpMriData
    /\ Rendered /\ Len(PlotData) = Len(GridShapes) + 1
    /\ pendingData = <<>>

(***************************************************************************)
(* C29.  The voxels stored.                                                *)
(***************************************************************************)
StoredVoxels == {groupA[k] : k \in 1..Len(groupA)} \cup {groupB[k] : k \in 1..Len(groupB)}

\* C29: every stored voxel has x, y, column and row >= 0; the voxel stored by
\* a click has x <= rect.width - offsetSelectX - 450 and y <= rect.height -
\* offsetSelectY - 370 for the rectangle of the container at the click, which
\* is therefore at least 450 + offsetSelectX wide and 370 + offsetSelectY high
C29_StoredWithinRectangle ==
    /\ [](\A v \in StoredVoxels : v.x >= 0 /\ v.y >= 0 /\ v.column >= 0 /\ v.row >= 0)
    /\ [][OneVoxelMore
            => /\ LastOf(ActiveGroupAfter).x <= PlotRect.width - (0 - 263) - 450
               /\ LastOf(ActiveGroupAfter).y <= PlotRect.height - (0 - 98) - 370
               /\ PlotRect.width >= 450 + (0 - 263)
               /\ PlotRect.height >= 370 + (0 - 98)
               /\ PlotRect' = PlotRect]_vars

\* the clicks on the two corners of the rectangle of the 460 x 380 container
\* are stored, and the window has since shrunk to the container of 100 x 100
\* pixels, from which no click is accepted
C29_Witness ==
    /\ Len(groupA) + Len(groupB) = 2
    /\ \E v \in StoredVoxels : v.x = 0 /\ v.y = 0 /\ v.column = 0 /\ v.row = 0
    /\ \E v \in StoredVoxels : v.x = 460 + 263 - 450 /\ v.y = 380 + 98 - 370
    /\ PlotRect.width = 100 /\ PlotRect.width < 450 + (0 - 263)

(***************************************************************************)
(* C30.  What the voxel of a click depends on.                             *)
(***************************************************************************)
\* a voxel as a function of the container-relative position (px, py), the
\* container's size (w, h), the grid sizes and the calibration constants
VoxelOf(px, py, w, h, columns, rows) ==
    [x |-> px + 263, y |-> py + 98,
     column |-> GridIndex(px + 263, columns, w, 1335),
     row |-> GridIndex(py + 98, rows, h, 1875)]

\* C30: the voxel recorded for a click is a function of the click position
\* relative to the container's corner, the container's width and height and
\* the dataset's columns and rows: states that differ in the lengths, the
\* plotShift, the visibility, the threshold or the magnet record the same voxel
C30_VoxelDependsOnly ==
    [][\A p \in VoxelOffsets :
        (handleVoxelSelect(PlotRect.left + p[1], PlotRect.top + p[2]) /\ OneVoxelMore)
            => LastOf(ActiveGroupAfter)
                 = VoxelOf(p[1], p[2], PlotRect.width, PlotRect.height,
                           hpMriData.columns, hpMriData.rows)]_vars

\* the voxel recorded in the large container for the 8 x 2 dataset of
\* lengths 40 and 20 and plotShift [0, 0] is recorded as well for lengths 6
\* and 5 and plotShift [1, 0], with the plot visible, threshold 0.5 and the
\* Clinical magnet
C30_Witness ==
    /\ hpMriData.columns = 8 /\ hpMriData.rows = 2
    /\ hpMriData.longitudinalScale = 6 /\ hpMriData.longitudinalMeasurement = 5
    /\ hpMriData.plotShift = <<1, 0>>
    /\ showHpMriData /\ threshold = "0.5" /\ magnetType = "Clinical"
    /\ PlotRect.width = 1280
    /\ groupA = << [x |-> 643, y |-> 398, column |-> 5, row |-> 2] >>

=============================================================================
